---- MODULE Spec2Model ----
(***************************************************************************)
(* devconcurrent: the task-execution core (runner.rs, run.rs), the PTY      *)
(* executor (runner/pty.rs), the workspace reconciler (workspace.rs) and   *)
(* the commands that name one workspace (cli/), as state machines.         *)
(*                                                                         *)
(*   SpecThread  runner::run_parallel, one scoped OS thread per task       *)
(*   SpecRun     run::Runner::run and Runner::run_parallel (try_join_all)  *)
(*   SpecList    workspace::list_with_filter: discovery, grouping, merge   *)
(*   SpecEnrich  list_with_filter over the answers to stats and inspect    *)
(*   SpecRelist  list_with_filter called twice, over the file system       *)
(*   SpecScope   list_project(Some(p)) on an engine with other projects    *)
(*   SpecPty     runner::pty::run_in_pty                                   *)
(*   SpecNamed   exec --name, fwd --name, copy --from --to, kill NAME      *)
(***************************************************************************)
EXTENDS Integers, Sequences, FiniteSets, TLC

\* Largest batch handed to run_parallel.
MaxTasks == 3
\* Largest number of suspension points (awaits on I/O) inside one task body.
MaxAwaits == 1
\* Largest number of container records the engine lists.
MaxContainers == 2
\* Largest number of characters of a base name compose_project_name is given.
MaxName == 2
\* Largest number of characters of the port strings that are enumerated.
MaxPortLen == 3
\* Largest number of worktrees git lists for prune.
MaxWorktrees == 2
\* u16::MAX
U16Max == 65535

VARIABLES
    \* ---- runner.rs (thread-scoped run_parallel) ----
    cmds,        \* the batch: cmds[i] is the result body i will produce ("ok" / "err")
    tpc,         \* caller's position: "spawn", "join", "done"
    handles,     \* number of threads spawned so far (handles[1..handles])
    thr,         \* thr[i]: state of task i's body
    joined,      \* number of handles joined so far
    first_err,   \* 0 = None, else the index whose error is kept
    tresult,     \* [kind: "none" | "ok" | "err", src: index of the failed task]
    tfailed,     \* history: task indexes in the chronological order of their failures
    tinvoked,    \* history: tinvoked[i] = number of times body i was invoked
    tio,         \* tio[i]: body i awaits I/O or a timer of the runtime
    \* ---- run.rs (Runner) ----
    call,        \* "run" or "run_parallel"
    runnables,   \* the batch: records [name, outcome, awaits]
    rpc,         \* "init", "poll", "wait", "done"
    cursor,      \* index of the next element try_join_all polls in this pass
    anyPending,  \* FinalState::Pending seen in this pass
    st,          \* st[i]: state of task i's body
    left,        \* left[i]: suspension points body i has still to pass
    ready,       \* ready[i]: the I/O body i is suspended on has completed
    rresult,     \* [kind: "none" | "ok" | "err", ctx: context chain, src: failed task]
    rfailed,     \* history: chronological order of failures
    rinvoked,    \* history: number of invocations of each body
    bodyCtx,     \* history: bodyCtx[i] = span stack and token of body i's last execution
    \* ---- workspace.rs (list_with_filter) ----
    scope,       \* project_scope: <<>> (None) or <<name>>
    engine,      \* the container summaries of the engine; summary i has id i
    samples,     \* container id -> what the engine's stats stream yields for it
    sessions,    \* container id -> the inspect responses of its exec sessions
    gitOut,      \* paths printed by `git worktree list --porcelain` in the project
    fs,          \* path -> "missing", "clean" or "dirty": what the dirty check finds
    speed,       \* "Fast" or "Slow"
    lpc,         \* "ps", "group", "merge", "enrich", "build", "done", "failed"
    lerr,        \* the step whose error the call returned; "" while there is none
    containers,  \* result of docker_ps
    groups,      \* path -> WorktreeGroup
    stats_map,   \* container id -> Stats
    execs_map,   \* container id -> running exec sessions
    todo,        \* paths of `groups` not yet turned into a Workspace
    workspaces,  \* the Vec<Workspace> built so far
    statusRun,   \* history: the paths `git status` was spawned in
    prev,        \* <<>> or <<w>>: w is what an earlier call on this state returned
    \* ---- runner/pty.rs (run_in_pty) ----
    stream,      \* what lines.next_line() yields, call after call
    exit,        \* the exit status of the child: <<code>>, or <<>> when a signal ended it
    waitErr,     \* child.wait() returns an error
    ppc,         \* "open", "spawn", "read", "wait", "done"
    child,       \* "none" or "spawned"
    pos,         \* number of results read from the stream
    traced,      \* the lines handed to tracing::trace!, in order
    status,      \* <<>> until child.wait() has returned, then <<exit>>
    presult,     \* [kind: "none" | "ok" | "err", msg: the characters of the message]
    \* ---- cli/exec.rs, cli/fwd.rs, cli/copy.rs, cli/kill.rs ----
    nop,         \* the command: "exec", "fwd", "copy" or "kill"
    nname,       \* --name, --from or NAME
    nto,         \* --to of copy
    nforce,      \* --force of kill
    nline,       \* None, then Some(what read_line gave at the prompt of kill)
    listing,     \* the Vec<Workspace> list_project returns to the command
    dirs,        \* the paths that exist as a directory
    registered,  \* the paths git has registered as a worktree
    npc,         \* "lookup", "act", "done"
    target,      \* the workspaces or the path the lookup resolved the names to
    nresult,     \* [kind: "none" | "ok" | "err", msg]
    nactions,    \* history: the container, sidecar and worktree actions performed
    \* ---- cli/up.rs (compose_project_name) ----
    cpath,       \* the worktree path the name is computed for
    cname,       \* None, then Some(the compose project name)
    \* ---- cli/prune.rs ----
    qyes,        \* --yes
    qline,       \* None, then Some(what read_line gave at the prompt)
    qworktrees,  \* the Vec<PathBuf> list_worktrees returns
    qsnapshot,   \* the Vec<Workspace> list_project returns: path, execs, dirty
    qdirs,       \* the paths that exist as a directory
    qoverrides,  \* the compose names whose override file exists in temp_dir
    in_use,      \* the workspaces reported as in use
    dirty,       \* the workspaces reported as dirty
    to_clean_ws, \* the workspaces to remove
    to_clean_orphans,  \* the paths to remove
    cleanups,    \* CleanupMany::cleanups
    cst,         \* cst[i]: position of Cleanup i: "down", "check", "remove",
                 \* "worktree", "ok", "err"
    qpc,         \* "list", "classify", "confirm", "run", "done"
    qresult,     \* [kind: "none" | "ok" | "err", msg]
    qlog,        \* history: qlog[i] is the <<step, "ok" | "failed">> Cleanup i ran
    \* ---- cli/destroy.rs ----
    dpath,       \* workspace.path of the workspace destroy resolved
    dforce,      \* --force
    dline,       \* None, then Some(what read_line gave at the prompt of destroy)
    ddirs,       \* the paths that exist as a directory
    dregistered, \* the paths git has registered as a worktree
    ddirty,      \* whether the worktree has uncommitted changes
    doverride,   \* whether the override file of the workspace exists
    sidecars,    \* the port-forward sidecars of the engine: [labels, port]
    dpc,         \* "lookup", "confirm", "down", "override", "sidecars",
                 \* "worktree", "done"
    dresult,     \* [kind: "none" | "ok" | "err", msg]
    dlog,        \* history: <<command, "ok" | "failed">> of the commands run
    \* ---- cli/up.rs (Up::run) ----
    uconf,       \* the steps that are configured or asked for
    uroot,       \* whether the workspace is the root
    upc,         \* the step Up::run is at, or "done"
    uresult,     \* [kind: "none" | "ok" | "err", msg]
    ulog,        \* history: <<step, "ok" | "failed">> of the steps run
    \* ---- devcontainer/port_map.rs ----
    minput,      \* the JSON value to deserialize: a number or a string
    mport,       \* the PortMap: [kind: "none" | "ok" | "err", host, container]
    mtext,       \* None, then Some(the string the PortMap serializes to)
    mback,       \* the PortMap deserialized from mtext
    mpc,         \* "deserialize", "serialize", "reread", "done"
    \* ---- docker.rs (forwarded_ports, workspace_forwarded_ports) ----
    fports,      \* None, then Some(what forwarded_ports returned: <<workspace, port>>)
    fwsports     \* None, then Some(what workspace_forwarded_ports returned)

tvars == <<cmds, tpc, handles, thr, joined, first_err, tresult, tfailed, tinvoked, tio>>
rvars == <<call, runnables, rpc, cursor, anyPending, st, left, ready, rresult,
           rfailed, rinvoked, bodyCtx>>
lvars == <<scope, engine, samples, sessions, gitOut, fs, speed, lpc, lerr, containers,
           groups, stats_map, execs_map, todo, workspaces, statusRun, prev>>
pvars == <<stream, exit, waitErr, ppc, child, pos, traced, status, presult>>
nvars == <<nop, nname, nto, nforce, nline, listing, dirs, registered, npc, target, nresult, nactions>>
cvars == <<cpath, cname>>
qvars == <<qyes, qline, qworktrees, qsnapshot, qdirs, qoverrides, in_use, dirty, to_clean_ws,
           to_clean_orphans, cleanups, cst, qpc, qresult, qlog>>
dvars == <<dpath, dforce, dline, ddirs, dregistered, ddirty, doverride, sidecars, dpc,
           dresult, dlog>>
uvars == <<uconf, uroot, upc, uresult, ulog>>
mvars == <<minput, mport, mtext, mback, mpc>>
fvars == <<fports, fwsports>>
xvars == <<cvars, qvars, dvars, uvars, mvars, fvars>>
vars == <<tvars, rvars, lvars, pvars, nvars, xvars>>

Outcomes == {"ok", "err"}
Finished == {"Succeeded", "Failed"}

\* All sequences over S of length at most n.
SeqUpTo(S, n) == UNION {[1..k -> S] : k \in 0..n}

Min(S) == CHOOSE x \in S : \A y \in S : x <= y

(***************************************************************************)
(* runner.rs: run_parallel on scoped threads                               *)
(***************************************************************************)

ThreadIdle ==
    /\ cmds = <<>> /\ tpc = "done" /\ handles = 0 /\ thr = <<>> /\ joined = 0
    /\ first_err = 0 /\ tresult = [kind |-> "none"] /\ tfailed = <<>> /\ tinvoked = <<>>
    /\ tio = <<>>

ThreadInit ==
    /\ cmds \in SeqUpTo(Outcomes, MaxTasks)
    /\ tpc = "spawn"
    /\ handles = 0
    /\ thr = [i \in 1..Len(cmds) |-> "Pending"]
    /\ joined = 0
    /\ first_err = 0
    /\ tresult = [kind |-> "none"]
    /\ tfailed = <<>>
    /\ tinvoked = [i \in 1..Len(cmds) |-> 0]
    /\ tio = [i \in 1..Len(cmds) |-> FALSE]

\* The batches whose bodies may await the runtime's I/O: reading the pty,
\* waiting for a child process, a request to the engine.
ThreadIoInit ==
    /\ cmds \in SeqUpTo(Outcomes, MaxTasks)
    /\ tpc = "spawn"
    /\ handles = 0
    /\ thr = [i \in 1..Len(cmds) |-> "Pending"]
    /\ joined = 0
    /\ first_err = 0
    /\ tresult = [kind |-> "none"]
    /\ tfailed = <<>>
    /\ tinvoked = [i \in 1..Len(cmds) |-> 0]
    /\ tio \in [1..Len(cmds) -> BOOLEAN]

\* cmds.into_iter().enumerate().map(.. s.spawn(..)): the next thread is spawned.
ThreadSpawn ==
    /\ tpc = "spawn"
    /\ handles < Len(cmds)
    /\ handles' = handles + 1
    /\ UNCHANGED <<cmds, tpc, thr, joined, first_err, tresult, tfailed, tinvoked, tio>>
    /\ UNCHANGED <<rvars, lvars, pvars, nvars, xvars>>

\* .collect(): every thread is spawned, the join loop starts.
ThreadCollect ==
    /\ tpc = "spawn"
    /\ handles = Len(cmds)
    /\ tpc' = "join"
    /\ UNCHANGED <<cmds, handles, thr, joined, first_err, tresult, tfailed, tinvoked, tio>>
    /\ UNCHANGED <<rvars, lvars, pvars, nvars, xvars>>

\* The spawned closure: span.in_scope(|| handle.block_on(cmd.run(None))) starts.
ThreadBodyStart(i) ==
    /\ i <= handles
    /\ thr[i] = "Pending"
    /\ thr' = [thr EXCEPT ![i] = "Running"]
    /\ tinvoked' = [tinvoked EXCEPT ![i] = @ + 1]
    /\ UNCHANGED <<cmds, tpc, handles, joined, first_err, tresult, tfailed, tio>>
    /\ UNCHANGED <<rvars, lvars, pvars, nvars, xvars>>

\* The thread that runs the current_thread runtime (#[tokio::main(flavor =
\* "current_thread")]) turns the I/O and timer drivers when it parks between
\* two polls of the main future. run_parallel is one poll of that future:
\* std::thread::scope does not return to the runtime until every thread is
\* joined, and Handle::block_on in the spawned threads does not turn the
\* drivers of a current_thread runtime.
DriverTurns == tpc \notin {"spawn", "join"}

\* block_on returns the body's result; the closure ends and the thread
\* exits. A body that awaits I/O gets there once the driver has delivered
\* its events.
ThreadBodyEnd(i) ==
    /\ thr[i] = "Running"
    /\ tio[i] => DriverTurns
    /\ thr' = [thr EXCEPT ![i] = IF cmds[i] = "ok" THEN "Succeeded" ELSE "Failed"]
    /\ tfailed' = IF cmds[i] = "ok" THEN tfailed ELSE Append(tfailed, i)
    /\ UNCHANGED <<cmds, tpc, handles, joined, first_err, tresult, tinvoked, tio>>
    /\ UNCHANGED <<rvars, lvars, pvars, nvars, xvars>>

\* Mutant: the last error met in the loop is kept.
FirstErrLast(fe, j) == IF thr[j] = "Failed" THEN j ELSE fe

\* if let Err(e) = handle.join().unwrap() && first_err.is_none() { first_err = Some(e) }
FirstErrUpdate(fe, j) == IF thr[j] = "Failed" /\ fe = 0 THEN j ELSE fe

\* Mutant: the loop is left at the first error.
JoinLoopBreaks == joined = Len(cmds) \/ first_err # 0

\* `for handle in handles` has no break: it ends when every handle was joined.
JoinLoopDone == joined = Len(cmds)

\* One iteration of the join loop; join() blocks until thread j has exited.
ThreadJoin ==
    /\ tpc = "join"
    /\ ~JoinLoopDone
    /\ thr[joined + 1] \in Finished
    /\ first_err' = FirstErrUpdate(first_err, joined + 1)
    /\ joined' = joined + 1
    /\ UNCHANGED <<cmds, tpc, handles, thr, tresult, tfailed, tinvoked, tio>>
    /\ UNCHANGED <<rvars, lvars, pvars, nvars, xvars>>

\* match first_err { Some(e) => Err(e), None => Ok(()) }
ThreadReturn ==
    /\ tpc = "join"
    /\ JoinLoopDone
    /\ tresult' = IF first_err = 0 THEN [kind |-> "ok"] ELSE [kind |-> "err", src |-> first_err]
    /\ tpc' = "done"
    /\ UNCHANGED <<cmds, handles, thr, joined, first_err, tfailed, tinvoked, tio>>
    /\ UNCHANGED <<rvars, lvars, pvars, nvars, xvars>>

ThreadNext ==
    \/ ThreadSpawn
    \/ ThreadCollect
    \/ \E i \in 1..Len(cmds) : ThreadBodyStart(i)
    \/ \E i \in 1..Len(cmds) : ThreadBodyEnd(i)
    \/ ThreadJoin
    \/ ThreadReturn

(***************************************************************************)
(* run.rs: Runner                                                          *)
(***************************************************************************)

Names == {"a", "b"}
Runnables == [name : Names, outcome : Outcomes, awaits : 0..MaxAwaits]

RunIdle ==
    /\ call = "none" /\ runnables = <<>> /\ rpc = "done" /\ cursor = 0
    /\ anyPending = FALSE /\ st = <<>> /\ left = <<>> /\ ready = <<>>
    /\ rresult = [kind |-> "none"] /\ rfailed = <<>> /\ rinvoked = <<>> /\ bodyCtx = <<>>

\* The batches explored: every combination of outcomes and suspension points,
\* with the tasks all named alike or neighbours named differently.
AllSameName(rs) == \A i \in 1..Len(rs) : rs[i].name = "a"
AlternatingNames(rs) ==
    \A i \in 1..Len(rs) : rs[i].name = IF i % 2 = 1 THEN "a" ELSE "b"

RunInit ==
    /\ call \in {"run", "run_parallel"}
    /\ runnables \in SeqUpTo(Runnables, MaxTasks)
    /\ AllSameName(runnables) \/ AlternatingNames(runnables)
    /\ call = "run" => Len(runnables) = 1
    /\ rpc = "init"
    /\ cursor = 0
    /\ anyPending = FALSE
    /\ st = [i \in 1..Len(runnables) |-> "Pending"]
    /\ left = [i \in 1..Len(runnables) |-> runnables[i].awaits]
    /\ ready = [i \in 1..Len(runnables) |-> FALSE]
    /\ rresult = [kind |-> "none"]
    /\ rfailed = <<>>
    /\ rinvoked = [i \in 1..Len(runnables) |-> 0]
    /\ bodyCtx = [i \in 1..Len(runnables) |-> [spans |-> <<>>, token |-> "none"]]

\* const TOK: Token = Token(()): the one token value, private to the module.
TOK == "TOK"

\* The `name` argument of run_parallel.
BatchName == "batch"

\* run_span(name, description): the "run" span.
RunSpan(name) == [kind |-> "run", name |-> name]

\* info_span!("parallel", .., name, ..) of one element of the batch.
ParallelSpan(name) == [kind |-> "parallel", name |-> name]

\* Mutant: the body's future is not instrumented with its span.
PollScopeBare(i) ==
    IF call = "run" THEN <<>> ELSE <<RunSpan(BatchName)>>

\* The spans entered while body i is polled: .instrument(span) enters the
\* task's span around every poll; run_parallel holds its own span (_enter).
PollScope(i) ==
    IF call = "run"
    THEN <<RunSpan(runnables[1].name)>>
    ELSE <<RunSpan(BatchName), ParallelSpan(runnables[i].name)>>

\* The eyre::Report body i returns when it fails.
BodyErr(i) == [kind |-> "err", ctx |-> <<>>, src |-> i]

\* Mutant: the report is passed on without context.
WrapErrNone(e, c) == e

\* .wrap_err(ctx): the context is put in front of the report's chain.
WrapErr(e, c) == [kind |-> "err", ctx |-> <<c>> \o e.ctx, src |-> e.src]

\* let ctx = runnable.name().into_owned();
Ctx(i) == runnables[i].name

\* This poll drives body i to its end: no suspension point is left, or the
\* last one is passed because its I/O has completed.
Completes(i) == left[i] = 0 \/ (left[i] = 1 /\ ready[i])

\* What the body's future yields when it completes.
BodyResult(i) ==
    IF runnables[i].outcome = "ok" THEN [kind |-> "ok"] ELSE WrapErr(BodyErr(i), Ctx(i))

\* One poll of `async move { runnable.run(TOK).await.wrap_err(ctx) }.instrument(span)`:
\* the first poll invokes the body; the body runs to its next suspension
\* point that is not ready, or to its end.
PollBody(i) ==
    /\ rinvoked' = [rinvoked EXCEPT ![i] = IF st[i] = "Pending" THEN @ + 1 ELSE @]
    /\ bodyCtx' = [bodyCtx EXCEPT ![i] = [spans |-> PollScope(i), token |-> TOK]]
    /\ left' = [left EXCEPT ![i] = IF @ > 0 /\ ready[i] THEN @ - 1 ELSE @]
    /\ ready' = [ready EXCEPT ![i] = FALSE]
    /\ st' = [st EXCEPT ![i] =
                IF ~Completes(i) THEN "Running"
                ELSE IF runnables[i].outcome = "ok" THEN "Succeeded" ELSE "Failed"]
    /\ rfailed' = IF Completes(i) /\ runnables[i].outcome = "err"
                  THEN Append(rfailed, i) ELSE rfailed

\* The I/O a suspended body waits for completes and wakes the task.
IoReady(i) ==
    /\ rpc \in {"poll", "wait"}
    /\ st[i] = "Running"
    /\ left[i] > 0
    /\ ~ready[i]
    /\ ready' = [ready EXCEPT ![i] = TRUE]
    /\ UNCHANGED <<call, runnables, rpc, cursor, anyPending, st, left, rresult,
                   rfailed, rinvoked, bodyCtx>>
    /\ UNCHANGED <<tvars, lvars, pvars, nvars, xvars>>

\* Runner::run: runnable.run(TOK).instrument(span).await.wrap_err(ctx),
\* polled the first time and again whenever the body was woken.
RunnerRun ==
    /\ call = "run"
    /\ rpc = "init" \/ (rpc = "wait" /\ ready[1])
    /\ PollBody(1)
    /\ rpc' = IF Completes(1) THEN "done" ELSE "wait"
    /\ rresult' = IF Completes(1) THEN BodyResult(1) ELSE rresult
    /\ UNCHANGED <<call, runnables, cursor, anyPending>>
    /\ UNCHANGED <<tvars, lvars, pvars, nvars, xvars>>

\* Runner::run_parallel up to try_join_all(futures): the futures are built
\* (none is polled yet) and the first pass over them starts.
ParStart ==
    /\ call = "run_parallel"
    /\ rpc = "init"
    /\ rpc' = "poll"
    /\ cursor' = 1
    /\ anyPending' = FALSE
    /\ UNCHANGED <<call, runnables, st, left, ready, rresult, rfailed, rinvoked, bodyCtx>>
    /\ UNCHANGED <<tvars, lvars, pvars, nvars, xvars>>

\* try_join_all, one element of a pass: an element that is done is skipped;
\* a pending one is noted; an Err ends the pass: the remaining futures are
\* dropped where they stand and the error is returned (`.await?`).
ParPollElem ==
    /\ rpc = "poll"
    /\ cursor <= Len(runnables)
    /\ IF st[cursor] \in Finished
       THEN /\ cursor' = cursor + 1
            /\ UNCHANGED <<rpc, anyPending, st, left, ready, rresult, rfailed,
                           rinvoked, bodyCtx>>
       ELSE /\ PollBody(cursor)
            /\ IF Completes(cursor) /\ runnables[cursor].outcome = "err"
               THEN /\ rpc' = "done"
                    /\ rresult' = BodyResult(cursor)
                    /\ UNCHANGED <<cursor, anyPending>>
               ELSE /\ cursor' = cursor + 1
                    /\ anyPending' = (anyPending \/ ~Completes(cursor))
                    /\ UNCHANGED <<rpc, rresult>>
    /\ UNCHANGED <<call, runnables>>
    /\ UNCHANGED <<tvars, lvars, pvars, nvars, xvars>>

\* try_join_all, end of a pass: Pending if an element is pending, else Ok.
ParPollEnd ==
    /\ rpc = "poll"
    /\ cursor > Len(runnables)
    /\ IF anyPending
       THEN rpc' = "wait" /\ UNCHANGED rresult
       ELSE rpc' = "done" /\ rresult' = [kind |-> "ok"]
    /\ UNCHANGED <<call, runnables, cursor, anyPending, st, left, ready, rfailed,
                   rinvoked, bodyCtx>>
    /\ UNCHANGED <<tvars, lvars, pvars, nvars, xvars>>

\* A woken element makes the executor poll try_join_all again.
ParWake ==
    /\ call = "run_parallel"
    /\ rpc = "wait"
    /\ \E i \in 1..Len(runnables) : ready[i]
    /\ rpc' = "poll"
    /\ cursor' = 1
    /\ anyPending' = FALSE
    /\ UNCHANGED <<call, runnables, st, left, ready, rresult, rfailed, rinvoked, bodyCtx>>
    /\ UNCHANGED <<tvars, lvars, pvars, nvars, xvars>>

RunNext ==
    \/ RunnerRun
    \/ ParStart
    \/ ParPollElem
    \/ ParPollEnd
    \/ ParWake
    \/ \E i \in 1..Len(runnables) : IoReady(i)

(***************************************************************************)
(* workspace.rs: list_with_filter                                          *)
(***************************************************************************)

\* An Option<T>: <<>> is None, <<x>> is Some(x).
None == <<>>
Some(x) == <<x>>

\* A map with no entry.
EmptyMap == [k \in {} |-> 0]

\* m with key k set to v.
Put(m, k, v) == [x \in DOMAIN m \cup {k} |-> IF x = k THEN v ELSE m[x]]

\* The states a container summary reports, and EMPTY, the enum's first variant.
EMPTY == ""
States == {"created", "running", "paused", "restarting", "exited", "removing", "dead"}

\* The project of the configuration and its worktrees: the repository itself
\* and the worktrees under its workspace_dir.
ProjectName == "p"
RepoPath == "/repo"
Paths == {"/ws/a", "/ws/b"}

ListIdle ==
    /\ scope = None /\ engine = <<>> /\ samples = <<>> /\ sessions = <<>>
    /\ gitOut = <<>> /\ fs = EmptyMap
    /\ speed = "Fast" /\ lpc = "done" /\ lerr = ""
    /\ containers = <<>> /\ groups = EmptyMap /\ stats_map = EmptyMap
    /\ execs_map = EmptyMap /\ todo = {} /\ workspaces = <<>>
    /\ statusRun = {} /\ prev = None

\* The summaries the engine may list at position i: well-formed ones, whose
\* project label is the scope's when the label filter names a project, and
\* summaries with a missing part.
Summaries(i, sc) ==
    LET projects == IF sc = None THEN {None, Some(ProjectName)} ELSE {sc}
        good == [labels : {TRUE}, folder : {Some(f) : f \in Paths}, project : projects,
                 id : {Some(i)}, state : {Some(x) : x \in States}]
        base == [labels |-> TRUE, folder |-> Some("/ws/a"), project |-> Some(ProjectName),
                 id |-> Some(i), state |-> Some("running")]
    IN  good \cup {[base EXCEPT !.labels = FALSE], [base EXCEPT !.folder = None],
                   [base EXCEPT !.id = None], [base EXCEPT !.state = None]}

\* The environment the discovery and grouping are explored in: /ws/a has
\* uncommitted changes, the directory of /ws/b is gone; the caller asks for
\* Speed::Fast.
FsProfiles == {[p \in Paths |-> IF p = "/ws/a" THEN "dirty" ELSE "missing"]}
Speeds == {"Fast"}

\* The engine's answers to the enrichment calls where they are not what is
\* explored: the memory a container uses, its CPU percent between two
\* samples, its exec sessions (a container with an odd id has one, running).
RamOf(id) == id
CpuOf(id) == 10 * id
SampleOf(id) == [first |-> "ok", usage |-> Some(RamOf(id)), second |-> Some(CpuOf(id))]
SessionsOf(id) ==
    IF id % 2 = 1
    THEN <<[running |-> Some(TRUE), pid |-> Some(100 + id),
            process_config |-> Some([entrypoint |-> Some("sh"), arguments |-> None])]>>
    ELSE <<>>

\* The sequences of length n whose i-th element is in S[i].
SeqOf(n, S) ==
    {e \in [1..n -> UNION {S[i] : i \in 1..n}] : \A i \in 1..n : e[i] \in S[i]}

\* The state of the call when list_with_filter is entered.
ListEntry ==
    /\ lpc = "ps"
    /\ lerr = ""
    /\ containers = <<>>
    /\ groups = EmptyMap
    /\ stats_map = EmptyMap
    /\ execs_map = EmptyMap
    /\ todo = {}
    /\ workspaces = <<>>
    /\ statusRun = {}
    /\ prev = None

ListInit ==
    /\ scope \in {None, Some(ProjectName)}
    /\ fs \in FsProfiles
    /\ speed \in Speeds
    /\ \E n \in 0..MaxContainers :
          /\ engine \in SeqOf(n, [i \in 1..n |-> Summaries(i, scope)])
          /\ samples = [i \in 1..n |-> SampleOf(i)]
          /\ sessions = [i \in 1..n |-> SessionsOf(i)]
    /\ gitOut \in {<<RepoPath>>, <<RepoPath, "/ws/a">>, <<RepoPath, "/ws/b">>,
                   <<RepoPath, "/ws/a", "/ws/b">>}
    /\ ListEntry

\* Mutant: the engine is asked without the project's label.
MatchesFilterAny(c, sc) == TRUE

\* list_containers(filters): the engine lists the containers that carry the
\* label of the filter, dev.dc.project=<name> for list_project(Some(name));
\* every container of the model carries dev.dc.managed=true.
MatchesFilter(c, sc) == sc = None \/ c.project = sc

ListContainers(e, sc) == SelectSeq(e, LAMBDA c : MatchesFilter(c, sc))

\* A well-formed summary of a container of project proj at path f, in state x.
Summary(i, f, proj, x) ==
    [labels |-> TRUE, folder |-> Some(f), project |-> proj, id |-> Some(i),
     state |-> Some(x)]

\* What the stats stream of a container may yield: readings with and
\* without a CPU percent, a reading without memory usage, an error, nothing.
StatsSamples ==
    {[first |-> "ok", usage |-> Some(1), second |-> None],
     [first |-> "ok", usage |-> Some(2), second |-> Some(10)],
     [first |-> "ok", usage |-> Some(4), second |-> Some(25)],
     [first |-> "ok", usage |-> None, second |-> Some(10)],
     [first |-> "err", usage |-> None, second |-> None],
     [first |-> "none", usage |-> None, second |-> None]}

\* The inspect response of an exec session.
ExecInspect(running, pid, pc) == [running |-> running, pid |-> pid, process_config |-> pc]
ProcessConfig(ep, args) == Some([entrypoint |-> ep, arguments |-> args])

\* The exec sessions a container may have.
SessionLists ==
    {<<>>,
     <<ExecInspect(Some(TRUE), Some(7), ProcessConfig(Some("sh"), Some(<<"-c", "ls">>)))>>,
     <<ExecInspect(Some(FALSE), Some(8), ProcessConfig(Some("top"), None)),
       ExecInspect(Some(TRUE), Some(9), None)>>,
     <<ExecInspect(Some(TRUE), Some(5), ProcessConfig(Some("bash"), None)),
       ExecInspect(Some(TRUE), Some(6), ProcessConfig(None, Some(<<"-l">>)))>>,
     <<ExecInspect(None, Some(3), ProcessConfig(Some("vi"), None))>>,
     <<ExecInspect(Some(TRUE), None, ProcessConfig(Some("sh"), None))>>}

\* The enrichment explored: running containers of the project, in either
\* speed, over the stats samples or over the exec sessions.
EnrichInit ==
    /\ scope = None
    /\ fs \in FsProfiles
    /\ speed \in {"Fast", "Slow"}
    /\ \E n \in 0..MaxContainers :
          /\ engine \in SeqOf(n, [i \in 1..n |->
                {Summary(i, f, Some(ProjectName), "running") : f \in Paths}])
          /\ \/ /\ samples \in SeqOf(n, [i \in 1..n |-> StatsSamples])
                /\ sessions = [i \in 1..n |-> SessionsOf(i)]
             \/ /\ samples = [i \in 1..n |-> SampleOf(i)]
                /\ sessions \in SeqOf(n, [i \in 1..n |-> SessionLists])
    /\ gitOut \in {<<RepoPath>>, <<RepoPath, "/ws/b">>}
    /\ ListEntry

\* Two calls on one state, explored over what the dirty check finds.
RelistInit ==
    /\ scope = None
    /\ fs \in [Paths -> {"missing", "clean", "dirty"}]
    /\ speed \in {"Fast", "Slow"}
    /\ \E n \in 0..MaxContainers :
          /\ engine \in SeqOf(n, [i \in 1..n |->
                {Summary(i, f, Some(ProjectName), x) :
                    f \in Paths, x \in {"running", "exited"}}])
          /\ samples = [i \in 1..n |-> SampleOf(i)]
          /\ sessions = [i \in 1..n |-> SessionsOf(i)]
    /\ gitOut \in {<<RepoPath>>, <<RepoPath, "/ws/a">>, <<RepoPath, "/ws/b">>,
                   <<RepoPath, "/ws/a", "/ws/b">>}
    /\ ListEntry

\* list_project(Some(ProjectName)) on an engine that also has containers of
\* another project and containers without project label.
ScopeInit ==
    /\ scope = Some(ProjectName)
    /\ fs \in FsProfiles
    /\ speed \in {"Fast", "Slow"}
    /\ \E n \in 0..MaxContainers :
          /\ engine \in SeqOf(n, [i \in 1..n |->
                {Summary(i, f, proj, "running") :
                    f \in Paths, proj \in {Some(ProjectName), Some("q"), None}}])
          /\ samples = [i \in 1..n |-> SampleOf(i)]
          /\ sessions = [i \in 1..n |-> SessionsOf(i)]
    /\ gitOut \in {<<RepoPath>>, <<RepoPath, "/ws/a">>, <<RepoPath, "/ws/b">>,
                   <<RepoPath, "/ws/a", "/ws/b">>}
    /\ ListEntry

\* docker_ps, the loop over the listed summaries: a summary without labels or
\* without state aborts with an error, one without the worktree-path label or
\* without id is skipped.
RECURSIVE PsLoop(_, _)
PsLoop(cs, acc) ==
    IF cs = <<>> THEN [ok |-> TRUE, val |-> acc]
    ELSE LET c == Head(cs) IN
         IF ~c.labels THEN [ok |-> FALSE, val |-> <<>>]
         ELSE IF c.folder = None THEN PsLoop(Tail(cs), acc)
         ELSE IF c.id = None THEN PsLoop(Tail(cs), acc)
         ELSE IF c.state = None THEN [ok |-> FALSE, val |-> <<>>]
         ELSE PsLoop(Tail(cs),
                     Append(acc, [id |-> c.id[1],
                                  state |-> c.state[1],
                                  local_folder |-> c.folder[1],
                                  project |-> IF c.project = None THEN ""
                                              ELSE c.project[1]]))

docker_ps(listed) == PsLoop(listed, <<>>)

\* Position of a state in the declaration of ContainerSummaryStateEnum, whose
\* derived Ord is the order `.max()` uses.
Rank(x) ==
    CASE x = EMPTY -> 0
      [] x = "created" -> 1
      [] x = "running" -> 2
      [] x = "paused" -> 3
      [] x = "restarting" -> 4
      [] x = "exited" -> 5
      [] x = "removing" -> 6
      [] x = "dead" -> 7

\* group.states.iter().max().unwrap_or(&EMPTY); of equal maxima max() keeps the last.
RECURSIVE MaxState(_)
MaxState(states) ==
    IF states = <<>> THEN EMPTY
    ELSE IF Len(states) = 1 THEN states[1]
    ELSE LET m == MaxState(Tail(states)) IN
         IF Rank(states[1]) > Rank(m) THEN states[1] ELSE m

\* WorktreeGroup { project, container_ids: Vec::new(), states: Vec::new() }
EmptyGroup(project) == [project |-> project, container_ids |-> <<>>, states |-> <<>>]

\* Mutant: the container replaces the group of its path.
GroupInsertReplace(g, c) ==
    Put(g, c.local_folder,
        [project |-> c.project, container_ids |-> <<c.id>>, states |-> <<c.state>>])

\* groups.entry(c.local_folder).or_insert_with(..); then push the id and the state.
GroupInsert(g, c) ==
    LET old == IF c.local_folder \in DOMAIN g THEN g[c.local_folder]
               ELSE EmptyGroup(c.project)
    IN  Put(g, c.local_folder,
            [old EXCEPT !.container_ids = Append(@, c.id),
                        !.states = Append(@, c.state)])

\* `for c in &containers { .. }`
RECURSIVE GroupAll(_, _)
GroupAll(cs, g) ==
    IF cs = <<>> THEN g ELSE GroupAll(Tail(cs), GroupInsert(g, Head(cs)))

\* git_worktrees keeps the listed paths that start with workspace_dir.
InWorkspaceDir(path) == path \in Paths

RECURSIVE git_worktrees(_)
git_worktrees(listed) ==
    IF listed = <<>> THEN <<>>
    ELSE IF InWorkspaceDir(Head(listed))
         THEN <<Head(listed)>> \o git_worktrees(Tail(listed))
         ELSE git_worktrees(Tail(listed))

\* Mutant: the worktree's empty group is inserted over an existing one.
MergeWorktreeOverwrite(g, wt, proj) == Put(g, wt, EmptyGroup(proj))

\* groups.entry(wt).or_insert_with(|| WorktreeGroup { project: proj_name, .. })
MergeWorktree(g, wt, proj) ==
    IF wt \in DOMAIN g THEN g ELSE Put(g, wt, EmptyGroup(proj))

\* `for wt in git_worktrees(..).await? { .. }`
RECURSIVE MergeAll(_, _, _)
MergeAll(wts, g, proj) ==
    IF wts = <<>> THEN g
    ELSE MergeAll(Tail(wts), MergeWorktree(g, Head(wts), proj), proj)

\* all_container_ids: the ids of every group.
AllContainerIds(g) ==
    UNION {{g[k].container_ids[i] : i \in 1..Len(g[k].container_ids)} : k \in DOMAIN g}

RECURSIVE SumRam(_)
SumRam(ss) == IF ss = <<>> THEN 0 ELSE Head(ss).ram + SumRam(Tail(ss))

\* .filter_map(|s| s.cpu).reduce(|a, b| a + b)
RECURSIVE SumCpu(_)
SumCpu(ss) ==
    IF ss = <<>> THEN None
    ELSE LET rest == SumCpu(Tail(ss)) IN
         IF Head(ss).cpu = None THEN rest
         ELSE IF rest = None THEN Head(ss).cpu
         ELSE Some(Head(ss).cpu[1] + rest[1])

\* group.container_ids.iter().filter_map(|id| stats_map.get(id)).collect()
RECURSIVE ContainerStats(_, _)
ContainerStats(ids, sm) ==
    IF ids = <<>> THEN <<>>
    ELSE (IF Head(ids) \in DOMAIN sm THEN <<sm[Head(ids)]>> ELSE <<>>)
         \o ContainerStats(Tail(ids), sm)

\* Mutant: the stats of the last container stand for the workspace.
AggregateStatsLast(ids, sm) ==
    LET cs == ContainerStats(ids, sm) IN
    IF cs = <<>> THEN None ELSE Some(cs[Len(cs)])

\* Aggregate stats: None without samples, else the sums.
AggregateStats(ids, sm) ==
    LET cs == ContainerStats(ids, sm) IN
    IF cs = <<>> THEN None ELSE Some([ram |-> SumRam(cs), cpu |-> SumCpu(cs)])

\* .flat_map(|id| execs_map.remove(id).unwrap_or_default())
RECURSIVE GroupExecs(_, _)
GroupExecs(ids, em) ==
    IF ids = <<>> THEN <<>>
    ELSE (IF Head(ids) \in DOMAIN em THEN em[Head(ids)] ELSE <<>>)
         \o GroupExecs(Tail(ids), em)

\* The first reading of the stats stream is Some(Ok(stats)) and carries
\* memory_stats.usage; anything else is returned as an error.
StatsOk(id) == samples[id].first = "ok" /\ samples[id].usage # None

\* docker_stats_fast: one reading for each id, memory only.
docker_stats_fast(ids) ==
    IF \E id \in ids : ~StatsOk(id) THEN [ok |-> FALSE, val |-> EmptyMap]
    ELSE [ok |-> TRUE,
          val |-> [id \in ids |-> [ram |-> samples[id].usage[1], cpu |-> None]]]

\* docker_stats_full: two readings for each id; the second one gives the CPU
\* percent, None when that reading fails or lacks a counter.
docker_stats_full(ids) ==
    IF \E id \in ids : ~StatsOk(id) THEN [ok |-> FALSE, val |-> EmptyMap]
    ELSE [ok |-> TRUE,
          val |-> [id \in ids |-> [ram |-> samples[id].usage[1],
                                   cpu |-> samples[id].second]]]

\* Mutant: the arguments are taken for the whole command.
ExecCommandArgsOnly(exec) ==
    IF exec.process_config = None \/ exec.process_config[1].arguments = None THEN <<>>
    ELSE exec.process_config[1].arguments[1]

\* The command of an exec session: the entrypoint, then the arguments.
ExecCommand(exec) ==
    IF exec.process_config = None THEN <<>>
    ELSE LET pc == exec.process_config[1] IN
         (IF pc.entrypoint = None THEN <<>> ELSE <<pc.entrypoint[1]>>)
         \o (IF pc.arguments = None THEN <<>> ELSE pc.arguments[1])

\* detect_execs, `for eid in &exec_ids`: a session that is not running is
\* passed over, a running one without pid is an error.
RECURSIVE ExecLoop(_, _)
ExecLoop(es, acc) ==
    IF es = <<>> THEN [ok |-> TRUE, val |-> acc]
    ELSE LET exec == Head(es) IN
         IF exec.running # Some(TRUE) THEN ExecLoop(Tail(es), acc)
         ELSE IF exec.pid = None THEN [ok |-> FALSE, val |-> <<>>]
         ELSE ExecLoop(Tail(es),
                       Append(acc, [pid |-> exec.pid[1], command |-> ExecCommand(exec)]))

\* detect_execs: a container gets an entry when it has a running session.
detect_execs(ids) ==
    IF \E id \in ids : ~ExecLoop(sessions[id], <<>>).ok
    THEN [ok |-> FALSE, val |-> EmptyMap]
    ELSE [ok |-> TRUE,
          val |-> [id \in {x \in ids : ExecLoop(sessions[x], <<>>).val # <<>>} |->
                      ExecLoop(sessions[id], <<>>).val]]

\* `?` returns the error: the call's locals are dropped.
Fails(cause) ==
    /\ lpc' = "failed"
    /\ lerr' = cause
    /\ containers' = <<>>
    /\ groups' = EmptyMap
    /\ stats_map' = EmptyMap
    /\ execs_map' = EmptyMap
    /\ todo' = {}
    /\ workspaces' = <<>>
    /\ UNCHANGED <<scope, engine, samples, sessions, gitOut, fs, speed, statusRun, prev>>

\* Phase 1: docker_ps(docker, filters).await?
ListPs ==
    /\ lpc = "ps"
    /\ LET r == docker_ps(ListContainers(engine, scope)) IN
       IF r.ok
       THEN /\ lpc' = "group"
            /\ containers' = r.val
            /\ UNCHANGED <<scope, engine, samples, sessions, gitOut, fs, speed, lerr,
                           groups, stats_map, execs_map, todo, workspaces, statusRun,
                           prev>>
       ELSE Fails("parse")
    /\ UNCHANGED <<tvars, rvars, pvars, nvars, xvars>>

\* list_containers fails: the engine cannot be reached.
ListPsUnavailable ==
    /\ lpc = "ps"
    /\ Fails("engine")
    /\ UNCHANGED <<tvars, rvars, pvars, nvars, xvars>>

\* Group containers by worktree path.
ListGroup ==
    /\ lpc = "group"
    /\ groups' = GroupAll(containers, EmptyMap)
    /\ lpc' = "merge"
    /\ UNCHANGED <<scope, engine, samples, sessions, gitOut, fs, speed, lerr, containers,
                   stats_map, execs_map, todo, workspaces, statusRun, prev>>
    /\ UNCHANGED <<tvars, rvars, pvars, nvars, xvars>>

\* Phase 2: the worktrees of the scanned project are merged in.
ListMerge ==
    /\ lpc = "merge"
    /\ groups' = MergeAll(git_worktrees(gitOut), groups, ProjectName)
    /\ lpc' = "enrich"
    /\ UNCHANGED <<scope, engine, samples, sessions, gitOut, fs, speed, lerr, containers,
                   stats_map, execs_map, todo, workspaces, statusRun, prev>>
    /\ UNCHANGED <<tvars, rvars, pvars, nvars, xvars>>

\* config.project, DevContainer::load or `git worktree list` fails.
ListMergeFail ==
    /\ lpc = "merge"
    /\ Fails("worktrees")
    /\ UNCHANGED <<tvars, rvars, pvars, nvars, xvars>>

\* Phase 3: docker_stats_fast / docker_stats_full, then detect_execs, each
\* followed by `?`.
ListEnrich ==
    /\ lpc = "enrich"
    /\ LET ids == AllContainerIds(groups)
           stats == IF speed = "Slow" THEN docker_stats_full(ids)
                    ELSE docker_stats_fast(ids)
           execs == detect_execs(ids)
       IN  IF stats.ok /\ execs.ok
           THEN /\ stats_map' = stats.val
                /\ execs_map' = execs.val
                /\ todo' = DOMAIN groups
                /\ lpc' = "build"
                /\ UNCHANGED <<scope, engine, samples, sessions, gitOut, fs, speed, lerr,
                               containers, groups, workspaces, statusRun, prev>>
           ELSE Fails("enrich")
    /\ UNCHANGED <<tvars, rvars, pvars, nvars, xvars>>

\* The engine does not answer a stats or inspect call: `?` returns the error.
ListEnrichFail ==
    /\ lpc = "enrich"
    /\ AllContainerIds(groups) # {}
    /\ Fails("enrich")
    /\ UNCHANGED <<tvars, rvars, pvars, nvars, xvars>>

\* Mutant: a missing directory counts as dirty.
DirtyUnlessClean(path) == fs[path] # "clean"

\* if path.exists() { !`git status --porcelain`.stdout.is_empty() } else { false }
Dirty(path) == IF fs[path] # "missing" THEN fs[path] = "dirty" ELSE FALSE

\* Mutant: the first workspace built takes the exec sessions of every group.
ListBuildDrainsExecs(path) ==
    /\ lpc = "build"
    /\ path \in todo
    /\ workspaces' = Append(workspaces,
          [path |-> path,
           project |-> groups[path].project,
           container_ids |-> groups[path].container_ids,
           dirty |-> Dirty(path),
           execs |-> IF workspaces = <<>>
                     THEN GroupExecs([i \in 1..Len(engine) |-> i], execs_map)
                     ELSE <<>>,
           status |-> MaxState(groups[path].states),
           stats |-> AggregateStats(groups[path].container_ids, stats_map)])
    /\ todo' = todo \ {path}
    /\ statusRun' = IF fs[path] # "missing" THEN statusRun \cup {path} ELSE statusRun
    /\ UNCHANGED <<scope, engine, samples, sessions, gitOut, fs, speed, lpc, lerr,
                   containers, groups, stats_map, execs_map, prev>>
    /\ UNCHANGED <<tvars, rvars, pvars, nvars, xvars>>

\* One iteration of `for (path, group) in groups` (a HashMap: any order).
ListBuild(path) ==
    /\ lpc = "build"
    /\ path \in todo
    /\ workspaces' = Append(workspaces,
          [path |-> path,
           project |-> groups[path].project,
           container_ids |-> groups[path].container_ids,
           dirty |-> Dirty(path),
           execs |-> GroupExecs(groups[path].container_ids, execs_map),
           status |-> MaxState(groups[path].states),
           stats |-> AggregateStats(groups[path].container_ids, stats_map)])
    /\ todo' = todo \ {path}
    /\ statusRun' = IF fs[path] # "missing" THEN statusRun \cup {path} ELSE statusRun
    /\ UNCHANGED <<scope, engine, samples, sessions, gitOut, fs, speed, lpc, lerr,
                   containers, groups, stats_map, execs_map, prev>>
    /\ UNCHANGED <<tvars, rvars, pvars, nvars, xvars>>

\* `git status` cannot be spawned in an existing path.
ListBuildFail ==
    /\ lpc = "build"
    /\ \E path \in todo : fs[path] # "missing"
    /\ Fails("status")
    /\ UNCHANGED <<tvars, rvars, pvars, nvars, xvars>>

\* Ok(workspaces)
ListReturn ==
    /\ lpc = "build"
    /\ todo = {}
    /\ lpc' = "done"
    /\ UNCHANGED <<scope, engine, samples, sessions, gitOut, fs, speed, lerr, containers,
                   groups, stats_map, execs_map, todo, workspaces, statusRun, prev>>
    /\ UNCHANGED <<tvars, rvars, pvars, nvars, xvars>>

\* The caller keeps what the call returned and calls again; nothing of the
\* engine, the repository or the file system has changed.
ListAgain ==
    /\ lpc = "done"
    /\ prev = None
    /\ prev' = Some(workspaces)
    /\ lpc' = "ps"
    /\ containers' = <<>>
    /\ groups' = EmptyMap
    /\ stats_map' = EmptyMap
    /\ execs_map' = EmptyMap
    /\ todo' = {}
    /\ workspaces' = <<>>
    /\ UNCHANGED <<scope, engine, samples, sessions, gitOut, fs, speed, lerr, statusRun>>
    /\ UNCHANGED <<tvars, rvars, pvars, nvars, xvars>>

ListNext ==
    \/ ListPs
    \/ ListPsUnavailable
    \/ ListGroup
    \/ ListMerge
    \/ ListMergeFail
    \/ ListEnrich
    \/ ListEnrichFail
    \/ \E path \in Paths : ListBuild(path)
    \/ ListBuildFail
    \/ ListReturn

(***************************************************************************)
(* runner/pty.rs: run_in_pty                                               *)
(***************************************************************************)

\* Largest number of lines the child prints before its output ends.
MaxLines == 2
\* The OS error a read of the pty returns once the child has closed its side.
EIO == 5

PtyIdle ==
    /\ stream = <<>> /\ exit = None /\ waitErr = FALSE /\ ppc = "done"
    /\ child = "none" /\ pos = 0 /\ traced = <<>> /\ status = None
    /\ presult = [kind |-> "none", msg |-> <<>>]

\* What lines.next_line() returns: Ok(Some(line)), Ok(None), Err(e).
Line(l) == [tag |-> "line", text |-> l, os |-> None]
Eof == [tag |-> "eof", text |-> "", os |-> None]
ReadErr(os) == [tag |-> "err", text |-> "", os |-> os]

\* The lines a child prints.
LineTexts == {"out", "warn"}
\* How the reading ends: end of file, EIO, another OS error (EINTR), or an
\* error without OS code (a line that is not UTF-8).
Terminators == {Eof, ReadErr(Some(EIO)), ReadErr(Some(4)), ReadErr(None)}
\* The exit statuses of a child: a code, or none when a signal ended it.
ExitStatuses == {Some(0), Some(1), Some(7), Some(130), None}

\* Before its end the reading yields the lines of the child, and an error
\* without OS code for a line that is not UTF-8; the child goes on printing.
PtyInit ==
    /\ \E ls \in SeqUpTo({Line(l) : l \in LineTexts} \cup {ReadErr(None)}, MaxLines),
          t \in Terminators :
          stream = Append(ls, t)
    /\ exit \in ExitStatuses
    /\ waitErr \in BOOLEAN
    /\ ppc = "open"
    /\ child = "none"
    /\ pos = 0
    /\ traced = <<>>
    /\ status = None
    /\ presult = [kind |-> "none", msg |-> <<>>]

\* The characters of a number, as `{code}` formats it.
DigitChar(d) == <<"0", "1", "2", "3", "4", "5", "6", "7", "8", "9">>[d + 1]

RECURSIVE Decimal(_)
Decimal(n) ==
    IF n < 10 THEN <<DigitChar(n)>> ELSE Append(Decimal(n \div 10), DigitChar(n % 10))

\* Mutant: the message names no status.
ExitMessageBare(code) == <<"command exited">>

\* "command exited with status {code}"
ExitMessage(code) == <<"command exited with status ">> \o Decimal(code)

\* Mutant: no read error ends the stream.
EndOfStreamNever(e) == FALSE

\* Err(e) if e.raw_os_error() == Some(5)
EndOfStream(e) == e.os = Some(EIO)

\* Mutant: a child that exited is a success.
SuccessAnyCode(es) == es # None

\* ExitStatus::success()
Success(es) == es = Some(0)

\* status.code().unwrap_or(1)
CodeOf(es) == IF es = None THEN 1 ELSE es[1]

\* `return Err(..)`: run_in_pty returns the error.
PtyFails(m) ==
    /\ ppc' = "done"
    /\ presult' = [kind |-> "err", msg |-> m]

\* pty_process::open()?
PtyOpen ==
    /\ ppc = "open"
    /\ ppc' = "spawn"
    /\ UNCHANGED <<stream, exit, waitErr, child, pos, traced, status, presult>>
    /\ UNCHANGED <<tvars, rvars, lvars, nvars, xvars>>

PtyOpenFail ==
    /\ ppc = "open"
    /\ PtyFails(<<"open">>)
    /\ UNCHANGED <<stream, exit, waitErr, child, pos, traced, status>>
    /\ UNCHANGED <<tvars, rvars, lvars, nvars, xvars>>

\* cmd.spawn(pts)?
PtySpawn ==
    /\ ppc = "spawn"
    /\ ppc' = "read"
    /\ child' = "spawned"
    /\ UNCHANGED <<stream, exit, waitErr, pos, traced, status, presult>>
    /\ UNCHANGED <<tvars, rvars, lvars, nvars, xvars>>

PtySpawnFail ==
    /\ ppc = "spawn"
    /\ PtyFails(<<"spawn">>)
    /\ UNCHANGED <<stream, exit, waitErr, child, pos, traced, status>>
    /\ UNCHANGED <<tvars, rvars, lvars, nvars, xvars>>

\* Mutant: the newest event is put before the older ones.
TraceNewestFirst(log, line) == <<line>> \o log

\* tracing::trace!("{line}")
Trace(log, line) == Append(log, line)

\* One iteration of the loop over lines.next_line().await.
PtyRead ==
    /\ ppc = "read"
    /\ LET r == stream[pos + 1] IN
       /\ pos' = pos + 1
       /\ CASE r.tag = "line" ->
                  /\ traced' = Trace(traced, r.text)
                  /\ UNCHANGED <<ppc, presult>>
            [] r.tag = "eof" ->
                  /\ ppc' = "wait"
                  /\ UNCHANGED <<traced, presult>>
            [] r.tag = "err" /\ EndOfStream(r) ->
                  /\ ppc' = "wait"
                  /\ UNCHANGED <<traced, presult>>
            [] r.tag = "err" /\ ~EndOfStream(r) ->
                  /\ PtyFails(<<"read">>)
                  /\ UNCHANGED traced
    /\ UNCHANGED <<stream, exit, waitErr, child, status>>
    /\ UNCHANGED <<tvars, rvars, lvars, nvars, xvars>>

\* child.wait().await?, then the exit status decides.
PtyWait ==
    /\ ppc = "wait"
    /\ IF waitErr
       THEN /\ PtyFails(<<"wait">>)
            /\ UNCHANGED status
       ELSE /\ status' = Some(exit)
            /\ ppc' = "done"
            /\ presult' = IF Success(exit) THEN [kind |-> "ok", msg |-> <<>>]
                          ELSE [kind |-> "err", msg |-> ExitMessage(CodeOf(exit))]
    /\ UNCHANGED <<stream, exit, waitErr, child, pos, traced>>
    /\ UNCHANGED <<tvars, rvars, lvars, nvars, xvars>>

PtyNext ==
    \/ PtyOpen
    \/ PtyOpenFail
    \/ PtySpawn
    \/ PtySpawnFail
    \/ PtyRead
    \/ PtyWait

(***************************************************************************)
(* cli/exec.rs, cli/fwd.rs, cli/copy.rs, cli/kill.rs: one workspace named  *)
(***************************************************************************)

\* Paths are sequences of components and a component is a sequence of
\* characters. The project's repository is the main worktree; the worktrees
\* are created under workspace_dir.
WorkspaceDir == <<<<"w", "s">>>>
ProjectPath == <<<<"w", "s">>, <<"m", "a", "i", "n">>>>
PathA == <<<<"w", "s">>, <<"a">>>>
PathB == <<<<"w", "s">>, <<"b">>>>
WorktreePaths == {PathA, PathB}
NameArgs == {<<"a">>, <<"b">>, <<"m", "a", "i", "n">>}

NamedIdle ==
    /\ nop = "exec" /\ nname = <<>> /\ nto = <<>> /\ nforce = FALSE /\ nline = <<>>
    /\ listing = <<>> /\ dirs = {}
    /\ registered = {} /\ npc = "done" /\ target = <<>>
    /\ nresult = [kind |-> "none", msg |-> <<>>] /\ nactions = <<>>

\* Path::file_name: the last component, none for the root and for a path
\* that ends in "..", a trailing "." being no component.
RECURSIVE file_name(_)
file_name(path) ==
    IF path = <<>> THEN None
    ELSE LET last == path[Len(path)] IN
         IF last = <<".">> THEN file_name(SubSeq(path, 1, Len(path) - 1))
         ELSE IF last = <<".", ".">> THEN None
         ELSE Some(last)

\* Path::join with a name of one component
Join(dir, name) == Append(dir, name)

UpperChars == <<"A", "B", "C", "D", "E", "F", "G", "H", "I", "J", "K", "L", "M",
                "N", "O", "P", "Q", "R", "S", "T", "U", "V", "W", "X", "Y", "Z">>
LowerChars == <<"a", "b", "c", "d", "e", "f", "g", "h", "i", "j", "k", "l", "m",
                "n", "o", "p", "q", "r", "s", "t", "u", "v", "w", "x", "y", "z">>
DigitChars == {"0", "1", "2", "3", "4", "5", "6", "7", "8", "9"}

\* char::to_lowercase of the characters of the model
to_lowercase(c) ==
    IF \E k \in 1..Len(UpperChars) : UpperChars[k] = c
    THEN LowerChars[CHOOSE k \in 1..Len(UpperChars) : UpperChars[k] = c]
    ELSE c

\* char::is_ascii_alphanumeric
is_ascii_alphanumeric(c) ==
    \/ \E k \in 1..Len(UpperChars) : UpperChars[k] = c
    \/ \E k \in 1..Len(LowerChars) : LowerChars[k] = c
    \/ c \in DigitChars

\* worktree_path.file_name().unwrap_or_default()
Basename(path) == IF file_name(path) = None THEN <<>> ELSE file_name(path)[1]

\* Mutant: the name keeps the case of the base name.
compose_project_name_cased(path) ==
    SelectSeq(Basename(path) \o <<"_", "d", "e", "v", "c", "o", "n", "t", "a", "i", "n", "e", "r">>,
              LAMBDA c : is_ascii_alphanumeric(c) \/ c = "-" \/ c = "_")

\* compose_project_name: format!("{basename}_devcontainer"), lowercased,
\* keeping only the ASCII letters and digits, '-' and '_'.
compose_project_name(path) ==
    LET raw == Basename(path) \o <<"_", "d", "e", "v", "c", "o", "n", "t", "a", "i", "n", "e", "r">>
        lower == [k \in 1..Len(raw) |-> to_lowercase(raw[k])]
    IN  SelectSeq(lower, LAMBDA c : is_ascii_alphanumeric(c) \/ c = "-" \/ c = "_")

\* The Workspace the reconciler returns for a path: of a worktree without
\* container, or of a path whose container is in state x.
WorkspaceAt(path, x) ==
    [path |-> path,
     project |-> ProjectName,
     compose_project_name |-> compose_project_name(path),
     status |-> x,
     container_ids |-> IF x = EMPTY THEN <<>> ELSE <<path[Len(path)]>>,
     execs |-> <<>>,
     dirty |-> FALSE]

\* What is on the machine, for each path: nothing, or a workspace the
\* reconciler lists (a registered worktree, containers, or both).
PathProfiles ==
    {[ws |-> None, reg |-> FALSE]}
    \cup {[ws |-> Some(EMPTY), reg |-> TRUE]}
    \cup [ws : {Some("running"), Some("exited")}, reg : BOOLEAN]

NamedInit ==
    /\ nop \in {"exec", "fwd", "copy", "kill"}
    /\ nname \in NameArgs
    /\ nto \in IF nop = "copy" THEN NameArgs ELSE {<<>>}
    /\ nforce = FALSE
    /\ nline = None
    /\ \E prof \in [WorktreePaths -> PathProfiles], root \in {EMPTY, "running"},
          descending \in BOOLEAN :
          LET a == IF prof[PathA].ws = None THEN <<>>
                   ELSE <<WorkspaceAt(PathA, prof[PathA].ws[1])>>
              b == IF prof[PathB].ws = None THEN <<>>
                   ELSE <<WorkspaceAt(PathB, prof[PathB].ws[1])>>
              m == <<WorkspaceAt(ProjectPath, root)>>
          IN  /\ listing = IF descending THEN m \o b \o a ELSE a \o b \o m
              /\ registered = {ProjectPath} \cup {q \in WorktreePaths : prof[q].reg}
    /\ \E d \in SUBSET WorktreePaths : dirs = {ProjectPath} \cup d
    /\ npc = "lookup"
    /\ target = <<>>
    /\ nresult = [kind |-> "none", msg |-> <<>>]
    /\ nactions = <<>>

\* .into_iter().find(|ws| ws.path.file_name().map(|f| f == name).unwrap_or(false))
RECURSIVE find_workspace(_, _)
find_workspace(wss, name) ==
    IF wss = <<>> THEN None
    ELSE IF file_name(Head(wss).path) = Some(name) THEN Some(Head(wss))
    ELSE find_workspace(Tail(wss), name)

\* eyre!("no workspace found with name: {name}")
NoWorkspaceFound(name) == [kind |-> "err", msg |-> <<"no workspace found with name: ", name>>]

\* eyre!("no workspace named '{}' found", self.name)
NoWorkspaceNamed(name) == [kind |-> "err", msg |-> <<"no workspace named '", name, "' found">>]

Err(text) == [kind |-> "err", msg |-> <<text>>]
Okay == [kind |-> "ok", msg |-> <<>>]

\* The command returns r.
Returns(r) ==
    /\ npc' = "done"
    /\ nresult' = r

\* Mutant: the status of the workspace is not looked at.
NameLookupAnyStatus ==
    /\ nop \in {"exec", "fwd"}
    /\ npc = "lookup"
    /\ LET ws == find_workspace(listing, nname) IN
       IF ws = None THEN Returns(NoWorkspaceFound(nname)) /\ UNCHANGED target
       ELSE IF ws[1].container_ids = <<>>
            THEN Returns(Err("no containers for workspace")) /\ UNCHANGED target
       ELSE npc' = "act" /\ target' = ws /\ UNCHANGED nresult
    /\ UNCHANGED <<nop, nname, nto, nforce, nline, listing, dirs, registered, nactions>>
    /\ UNCHANGED <<tvars, rvars, lvars, pvars, xvars>>

\* exec --name and fwd --name: the workspace of that name, which must be
\* running and have a container.
NameLookup ==
    /\ nop \in {"exec", "fwd"}
    /\ npc = "lookup"
    /\ LET ws == find_workspace(listing, nname) IN
       IF ws = None THEN Returns(NoWorkspaceFound(nname)) /\ UNCHANGED target
       ELSE IF ws[1].status # "running"
            THEN Returns(Err("workspace is not running")) /\ UNCHANGED target
       ELSE IF ws[1].container_ids = <<>>
            THEN Returns(Err("no containers for workspace")) /\ UNCHANGED target
       ELSE npc' = "act" /\ target' = ws /\ UNCHANGED nresult
    /\ UNCHANGED <<nop, nname, nto, nforce, nline, listing, dirs, registered, nactions>>
    /\ UNCHANGED <<tvars, rvars, lvars, pvars, xvars>>

\* exec: DevContainer::load(&path)?, then exec_interactive in the container.
ExecAct ==
    /\ nop = "exec"
    /\ npc = "act"
    /\ \E loaded \in BOOLEAN :
          IF loaded
          THEN /\ nactions' = Append(nactions, <<"exec", target[1].container_ids[1]>>)
               /\ Returns(Okay)
          ELSE /\ Returns(Err("devcontainer.json"))
               /\ UNCHANGED nactions
    /\ UNCHANGED <<nop, nname, nto, nforce, nline, listing, dirs, registered, target>>
    /\ UNCHANGED <<tvars, rvars, lvars, pvars, xvars>>

\* fwd: the port is resolved, the project's sidecars are removed and the
\* sidecar of the workspace is created and started.
FwdAct ==
    /\ nop = "fwd"
    /\ npc = "act"
    /\ \E port \in BOOLEAN :
          IF port
          THEN /\ nactions' = nactions \o
                      <<<<"remove_project_sidecars", target[1].project>>,
                        <<"create_container", target[1].compose_project_name>>,
                        <<"start_container", target[1].compose_project_name>>>>
               /\ Returns(Okay)
          ELSE /\ Returns(Err("no port specified and no fwdPort in devcontainer.json"))
               /\ UNCHANGED nactions
    /\ UNCHANGED <<nop, nname, nto, nforce, nline, listing, dirs, registered, target>>
    /\ UNCHANGED <<tvars, rvars, lvars, pvars, xvars>>

\* remaining.retain(|w| w.compose_project_name != from_ws.compose_project_name)
Remaining(wss, from) ==
    SelectSeq(wss, LAMBDA w : w.compose_project_name # from.compose_project_name)

\* copy --from --to: both names are looked up, --to among the other workspaces.
CopyLookup ==
    /\ nop = "copy"
    /\ npc = "lookup"
    /\ LET from == find_workspace(listing, nname) IN
       IF from = None THEN Returns(NoWorkspaceFound(nname)) /\ UNCHANGED target
       ELSE LET to == find_workspace(Remaining(listing, from[1]), nto) IN
            IF to = None THEN Returns(NoWorkspaceFound(nto)) /\ UNCHANGED target
            ELSE npc' = "act" /\ target' = from \o to /\ UNCHANGED nresult
    /\ UNCHANGED <<nop, nname, nto, nforce, nline, listing, dirs, registered, nactions>>
    /\ UNCHANGED <<tvars, rvars, lvars, pvars, xvars>>

\* copy: the volumes are resolved and copied.
CopyAct ==
    /\ nop = "copy"
    /\ npc = "act"
    /\ \E volumes \in BOOLEAN :
          IF volumes
          THEN /\ nactions' = Append(nactions,
                      <<"copy_volumes", target[1].compose_project_name,
                        target[2].compose_project_name>>)
               /\ Returns(Okay)
          ELSE /\ Returns(Err("no volumes specified and no defaultCopyVolumes configured"))
               /\ UNCHANGED nactions
    /\ UNCHANGED <<nop, nname, nto, nforce, nline, listing, dirs, registered, target>>
    /\ UNCHANGED <<tvars, rvars, lvars, pvars, xvars>>

\* char::is_whitespace of the characters of the model
Whitespace == {" ", "\n", "\t", "\r"}

\* str::trim: without the leading and the trailing whitespace
trim(s) ==
    LET solid == {k \in 1..Len(s) : s[k] \notin Whitespace}
    IN  IF solid = {} THEN <<>>
        ELSE SubSeq(s, Min(solid), CHOOSE k \in solid : \A j \in solid : j <= k)

\* str::eq_ignore_ascii_case
eq_ignore_ascii_case(a, b) ==
    /\ Len(a) = Len(b)
    /\ \A k \in 1..Len(a) : to_lowercase(a[k]) = to_lowercase(b[k])

\* What read_line gives at the prompt: a line, the empty string at the end
\* of the input, or an error.
ReadLine(l) == [kind |-> "ok", line |-> l]
ReadFailed == [kind |-> "err", line |-> <<>>]
AnswerLines ==
    {<<>>, <<"\n">>, <<"y", "\n">>, <<" ", "Y", " ", "\n">>, <<"n", "\n">>,
     <<"y", "e", "s", "\n">>, <<"y", " ", "y", "\n">>, <<"N">>}
Answers == {ReadLine(l) : l \in AnswerLines} \cup {ReadFailed}

\* Mutant: any line that starts with y confirms.
confirm_by_first_letter(line) ==
    trim(line) # <<>> /\ eq_ignore_ascii_case(<<trim(line)[1]>>, <<"y">>)

\* confirm(): Ok(line.trim().eq_ignore_ascii_case("y"))
confirm(line) == eq_ignore_ascii_case(trim(line), <<"y">>)

\* Mutant: kill skips what prune skips.
KillFoundIdleAndClean(path) ==
    \/ path = ProjectPath
    \/ /\ path \in dirs
       /\ \A k \in 1..Len(listing) :
             listing[k].path = path => listing[k].execs = <<>> /\ ~listing[k].dirty

\* kill: is_root || worktree_path.exists()
KillFound(path) == path = ProjectPath \/ path \in dirs

\* Mutant: the root workspace is not asked about.
KillLookupUnasked ==
    /\ nop = "kill"
    /\ npc = "lookup"
    /\ LET worktree_path == Join(WorkspaceDir, nname) IN
       IF ~KillFound(worktree_path)
       THEN Returns(NoWorkspaceNamed(nname)) /\ UNCHANGED target
       ELSE /\ npc' = "act"
            /\ target' = <<worktree_path>>
            /\ UNCHANGED nresult
    /\ UNCHANGED <<nop, nname, nto, nforce, nline, listing, dirs, registered, nactions>>
    /\ UNCHANGED <<tvars, rvars, lvars, pvars, xvars>>

\* kill NAME: the path under workspace_dir; the root workspace asks first.
KillLookup ==
    /\ nop = "kill"
    /\ npc = "lookup"
    /\ LET worktree_path == Join(WorkspaceDir, nname) IN
       IF ~KillFound(worktree_path)
       THEN Returns(NoWorkspaceNamed(nname)) /\ UNCHANGED target
       ELSE /\ npc' = IF worktree_path = ProjectPath THEN "confirm" ELSE "act"
            /\ target' = <<worktree_path>>
            /\ UNCHANGED nresult
    /\ UNCHANGED <<nop, nname, nto, nforce, nline, listing, dirs, registered, nactions>>
    /\ UNCHANGED <<tvars, rvars, lvars, pvars, xvars>>

\* if !confirm()? { println!("Aborted."); return Ok(()) }
KillConfirm ==
    /\ nop = "kill"
    /\ npc = "confirm"
    /\ \E answer \in Answers :
          /\ nline' = Some(answer)
          /\ IF answer.kind = "err" THEN Returns(Err("stdin"))
             ELSE IF confirm(answer.line) THEN npc' = "act" /\ UNCHANGED nresult
             ELSE Returns(Okay)
    /\ UNCHANGED <<nop, nname, nto, nforce, listing, dirs, registered, target, nactions>>
    /\ UNCHANGED <<tvars, rvars, lvars, pvars, xvars>>

\* Whether the worktree at path has uncommitted changes.
DirtyAt(path) == \E k \in 1..Len(listing) : listing[k].path = path /\ listing[k].dirty

\* kill: Cleanup::run: docker compose down, then git worktree remove unless
\* the workspace is the root; git refuses a path that is no worktree and,
\* without --force, a worktree that is dirty.
KillAct ==
    /\ nop = "kill"
    /\ npc = "act"
    /\ LET path == target[1]
           down == <<"compose_down", compose_project_name(path)>>
       IN  IF path = ProjectPath
           THEN /\ nactions' = Append(nactions, down)
                /\ Returns(Okay)
                /\ UNCHANGED <<dirs, registered>>
           ELSE /\ nactions' = nactions \o <<down, <<"worktree_remove", path>>>>
                /\ IF path \in registered /\ (nforce \/ ~DirtyAt(path))
                   THEN /\ registered' = registered \ {path}
                        /\ dirs' = dirs \ {path}
                        /\ Returns(Okay)
                   ELSE /\ Returns(Err("git worktree remove failed"))
                        /\ UNCHANGED <<dirs, registered>>
    /\ UNCHANGED <<nop, nname, nto, nforce, nline, listing, target>>
    /\ UNCHANGED <<tvars, rvars, lvars, pvars, xvars>>

\* What is on the machine for kill: as PathProfiles, and a workspace whose
\* directory exists may be dirty and a running one may have exec sessions.
KillProfiles ==
    {[ws |-> None, reg |-> FALSE, dir |-> d, dirty |-> FALSE, in_use |-> FALSE] : d \in BOOLEAN}
    \cup {[ws |-> Some(x), reg |-> r, dir |-> d, dirty |-> y, in_use |-> u] :
             x \in {EMPTY, "running"}, r \in BOOLEAN, d \in BOOLEAN, y \in BOOLEAN,
             u \in BOOLEAN}

\* The Workspace the reconciler returns for a path under a profile.
KillWorkspaceAt(path, prof) ==
    [WorkspaceAt(path, prof.ws[1]) EXCEPT
        !.dirty = prof.dirty,
        !.execs = IF prof.in_use THEN <<"sh">> ELSE <<>>]

\* kill NAME [--force], for every state of the named worktrees.
KillInit ==
    /\ nop = "kill"
    /\ nname \in NameArgs
    /\ nto = <<>>
    /\ nforce \in BOOLEAN
    /\ nline = None
    /\ \E prof \in [WorktreePaths -> KillProfiles] :
          /\ \A q \in WorktreePaths :
                /\ prof[q].ws # None => (prof[q].ws[1] = EMPTY => prof[q].reg)
                /\ prof[q].dirty => prof[q].dir /\ prof[q].reg
                /\ prof[q].in_use => prof[q].ws[1] = "running"
          /\ LET a == IF prof[PathA].ws = None THEN <<>>
                      ELSE <<KillWorkspaceAt(PathA, prof[PathA])>>
                 b == IF prof[PathB].ws = None THEN <<>>
                      ELSE <<KillWorkspaceAt(PathB, prof[PathB])>>
             IN  listing = a \o b \o <<WorkspaceAt(ProjectPath, "running")>>
          /\ registered = {ProjectPath} \cup {q \in WorktreePaths : prof[q].reg}
          /\ dirs = {ProjectPath} \cup {q \in WorktreePaths : prof[q].dir}
    /\ npc = "lookup"
    /\ target = <<>>
    /\ nresult = [kind |-> "none", msg |-> <<>>]
    /\ nactions = <<>>

NamedNext ==
    \/ NameLookup
    \/ ExecAct
    \/ FwdAct
    \/ CopyLookup
    \/ CopyAct
    \/ KillLookup
    \/ KillConfirm
    \/ KillAct

(***************************************************************************)
(* cli/up.rs: compose_project_name                                         *)
(***************************************************************************)

NameIdle == cpath = <<>> /\ cname = Some(<<>>)

\* The characters base names are made of: letters of both cases, a digit,
\* the two punctuation marks the name keeps and two it does not.
NameChars == {"a", "A", "1", "-", "_", "!", "."}

\* .../my_Worktree!
ExamplePath == <<<<"w", "s">>, <<"m", "y", "_", "W", "o", "r", "k", "t", "r", "e", "e", "!">>>>

\* The paths the name is computed for: the root, directories with a base
\* name, and paths that end in "." or "..".
NameInit ==
    /\ cpath \in {ExamplePath}
                \cup {dir \o <<n>> : dir \in {<<>>, WorkspaceDir},
                                     n \in SeqUpTo(NameChars, MaxName) \ {<<>>}}
                \cup {<<>>, <<<<"a">>, <<".">>>>, <<<<"a">>, <<".", ".">>>>}
    /\ cname = None

\* let name = compose_project_name(&worktree_path)
ComposeName ==
    /\ cname = None
    /\ cname' = Some(compose_project_name(cpath))
    /\ UNCHANGED cpath
    /\ UNCHANGED <<tvars, rvars, lvars, pvars, nvars, qvars, dvars, uvars, mvars, fvars>>

NameNext == ComposeName

(***************************************************************************)
(* cli/prune.rs: prune                                                     *)
(***************************************************************************)

PruneIdle ==
    /\ qyes = FALSE /\ qline = <<>> /\ qworktrees = <<>> /\ qsnapshot = <<>> /\ qdirs = {}
    /\ qoverrides = {} /\ in_use = <<>> /\ dirty = <<>> /\ to_clean_ws = <<>>
    /\ to_clean_orphans = <<>> /\ cleanups = <<>> /\ cst = <<>> /\ qpc = "done"
    /\ qresult = [kind |-> "none", msg |-> <<>>] /\ qlog = <<>>

\* The worktrees git lists under workspace_dir, in the order of the listing:
\* two whose base names differ in case only, and a third.
PathUpperA == <<<<"w", "s">>, <<"A">>>>
PruneWorktrees == <<PathA, PathUpperA, PathB>>

\* What the snapshot holds for a worktree: no workspace, or a workspace
\* with or without exec sessions, dirty or not.
SnapshotProfiles ==
    {[listed |-> FALSE, execs |-> FALSE, dirty |-> FALSE]}
    \cup [listed : {TRUE}, execs : BOOLEAN, dirty : BOOLEAN]

\* The Workspace of the snapshot for a path.
SnapshotAt(path, prof) ==
    [path |-> path,
     compose_project_name |-> compose_project_name(path),
     execs |-> IF prof.execs THEN <<"sh">> ELSE <<>>,
     dirty |-> prof.dirty]

\* A path that does not exist on disk is not dirty (workspace.rs: git status
\* fails there and the workspace is listed with dirty = false).
PruneInit ==
    /\ qyes \in BOOLEAN
    /\ qline = None
    /\ \E listed \in {l \in SUBSET (1..Len(PruneWorktrees)) : Cardinality(l) <= MaxWorktrees},
          prof \in [1..Len(PruneWorktrees) -> SnapshotProfiles],
          present \in SUBSET (1..Len(PruneWorktrees)) :
          /\ \A k \in 1..Len(PruneWorktrees) :
                /\ k \notin listed => prof[k] = [listed |-> FALSE, execs |-> FALSE, dirty |-> FALSE]
                                       /\ k \notin present
                /\ prof[k].dirty => k \in present
          /\ qworktrees = SelectSeq(PruneWorktrees,
                                    LAMBDA p : \E k \in listed : PruneWorktrees[k] = p)
          /\ qsnapshot =
                LET all == [k \in 1..Len(PruneWorktrees) |->
                               [on |-> prof[k].listed,
                                ws |-> SnapshotAt(PruneWorktrees[k], prof[k])]]
                    kept == SelectSeq(all, LAMBDA x : x.on)
                IN  [k \in 1..Len(kept) |-> kept[k].ws]
          /\ qdirs = {PruneWorktrees[k] : k \in present}
    /\ qoverrides \in SUBSET {compose_project_name(PathA)}
    /\ in_use = <<>> /\ dirty = <<>> /\ to_clean_ws = <<>> /\ to_clean_orphans = <<>>
    /\ cleanups = <<>> /\ cst = <<>>
    /\ qpc = "list"
    /\ qresult = [kind |-> "none", msg |-> <<>>]
    /\ qlog = <<>>

\* The command returns r.
PruneReturns(r) ==
    /\ qpc' = "done"
    /\ qresult' = r

\* ws_map.get(path.as_path())
ws_map(path) ==
    LET found == SelectSeq(qsnapshot, LAMBDA w : w.path = path)
    IN  IF found = <<>> THEN None ELSE Some(found[Len(found)])

\* Mutant: the snapshot is consulted before the path is tested.
ClassOfSnapshotFirst(path) ==
    IF ws_map(path) = None THEN "orphan"
    ELSE IF ws_map(path)[1].execs # <<>> THEN "in_use"
    ELSE IF ws_map(path)[1].dirty THEN "dirty"
    ELSE IF path \notin qdirs THEN "orphan"
    ELSE "clean"

\* The body of `for path in worktrees`: the list the path is pushed to.
ClassOf(path) ==
    IF path \notin qdirs THEN "orphan"
    ELSE IF ws_map(path) = None THEN "orphan"
    ELSE IF ws_map(path)[1].execs # <<>> THEN "in_use"
    ELSE IF ws_map(path)[1].dirty THEN "dirty"
    ELSE "clean"

\* The workspaces of the worktrees of one class, in the order of the loop.
WorkspacesOf(class) ==
    LET paths == SelectSeq(qworktrees, LAMBDA p : ClassOf(p) = class)
    IN  [k \in 1..Len(paths) |-> ws_map(paths[k])[1]]

\* list_worktrees and Workspace::list_project; either can fail, and without
\* worktrees there is nothing to prune.
PruneList ==
    /\ qpc = "list"
    /\ \E listed \in BOOLEAN :
          IF ~listed THEN PruneReturns([kind |-> "err", msg |-> <<"list">>])
          ELSE IF qworktrees = <<>> THEN PruneReturns([kind |-> "ok", msg |-> <<>>])
          ELSE qpc' = "classify" /\ UNCHANGED qresult
    /\ UNCHANGED <<qyes, qline, qworktrees, qsnapshot, qdirs, qoverrides, in_use, dirty,
                   to_clean_ws, to_clean_orphans, cleanups, cst, qlog>>
    /\ UNCHANGED <<tvars, rvars, lvars, pvars, nvars, cvars, dvars, uvars, mvars, fvars>>

\* The loop over the worktrees, the two reports, and the return when there
\* is nothing to remove.
PruneClassify ==
    /\ qpc = "classify"
    /\ in_use' = WorkspacesOf("in_use")
    /\ dirty' = WorkspacesOf("dirty")
    /\ to_clean_ws' = WorkspacesOf("clean")
    /\ to_clean_orphans' = SelectSeq(qworktrees, LAMBDA p : ClassOf(p) = "orphan")
    /\ IF to_clean_ws' = <<>> /\ to_clean_orphans' = <<>>
       THEN PruneReturns([kind |-> "ok", msg |-> <<>>])
       ELSE qpc' = "confirm" /\ UNCHANGED qresult
    /\ UNCHANGED <<qyes, qline, qworktrees, qsnapshot, qdirs, qoverrides, cleanups, cst, qlog>>
    /\ UNCHANGED <<tvars, rvars, lvars, pvars, nvars, cvars, dvars, uvars, mvars, fvars>>

\* Cleanup { path, compose_name: compose_project_name(path),
\*           remove_worktree: true, force: false }
CleanupOf(path) ==
    [path |-> path,
     compose_name |-> compose_project_name(path),
     remove_worktree |-> TRUE,
     force |-> FALSE]

\* if !self.yes && !confirm()? { Aborted }, then the cleanups: of the
\* workspaces to remove, then of the orphans.
PruneConfirm ==
    /\ qpc = "confirm"
    /\ \E answer \in Answers :
          /\ qline' = IF qyes THEN None ELSE Some(answer)
          /\ IF ~qyes /\ answer.kind = "err"
             THEN /\ PruneReturns(Err("stdin"))
                  /\ UNCHANGED <<cleanups, cst, qlog>>
             ELSE IF ~qyes /\ ~confirm(answer.line)
             THEN /\ PruneReturns([kind |-> "ok", msg |-> <<"Aborted.">>])
                  /\ UNCHANGED <<cleanups, cst, qlog>>
             ELSE /\ cleanups' = [k \in 1..Len(to_clean_ws) |->
                                     CleanupOf(to_clean_ws[k].path)]
                                  \o [k \in 1..Len(to_clean_orphans) |->
                                         CleanupOf(to_clean_orphans[k])]
                  /\ cst' = [k \in 1..(Len(to_clean_ws) + Len(to_clean_orphans)) |-> "down"]
                  /\ qlog' = [k \in 1..(Len(to_clean_ws) + Len(to_clean_orphans)) |-> <<>>]
                  /\ qpc' = "run"
                  /\ UNCHANGED qresult
    /\ UNCHANGED <<qyes, qworktrees, qsnapshot, qdirs, qoverrides, in_use, dirty,
                   to_clean_ws, to_clean_orphans>>
    /\ UNCHANGED <<tvars, rvars, lvars, pvars, nvars, cvars, dvars, uvars, mvars, fvars>>

\* Cleanup i has run step with the outcome "ok" or "failed".
Logged(i, step, ok) ==
    qlog' = [qlog EXCEPT ![i] = Append(@, <<step, IF ok THEN "ok" ELSE "failed">>)]

\* Cleanup::run of task i: docker compose -p <compose_name> down -v
\* --remove-orphans with .status().await; `down_result?` returns only the
\* failure to start the command, the exit status is not looked at.
CleanupDown(i) ==
    /\ qpc = "run"
    /\ cst[i] = "down"
    /\ \E spawned \in BOOLEAN, es \in ExitStatuses :
          IF spawned
          THEN /\ Logged(i, "compose_down", Success(es))
               /\ cst' = [cst EXCEPT ![i] = "check"]
          ELSE /\ cst' = [cst EXCEPT ![i] = "err"]
               /\ UNCHANGED qlog
    /\ UNCHANGED <<qyes, qline, qworktrees, qsnapshot, qdirs, qoverrides, in_use, dirty,
                   to_clean_ws, to_clean_orphans, cleanups, qpc, qresult>>
    /\ UNCHANGED <<tvars, rvars, lvars, pvars, nvars, cvars, dvars, uvars, mvars, fvars>>

\* if override_file.exists()
CleanupOverrideExists(i) ==
    /\ qpc = "run"
    /\ cst[i] = "check"
    /\ cst' = [cst EXCEPT ![i] = IF cleanups[i].compose_name \in qoverrides
                                 THEN "remove" ELSE "worktree"]
    /\ UNCHANGED <<qyes, qline, qworktrees, qsnapshot, qdirs, qoverrides, in_use, dirty,
                   to_clean_ws, to_clean_orphans, cleanups, qpc, qresult, qlog>>
    /\ UNCHANGED <<tvars, rvars, lvars, pvars, nvars, cvars, dvars, uvars, mvars, fvars>>

\* std::fs::remove_file(&override_file)?
CleanupOverrideRemove(i) ==
    /\ qpc = "run"
    /\ cst[i] = "remove"
    /\ IF cleanups[i].compose_name \in qoverrides
       THEN /\ qoverrides' = qoverrides \ {cleanups[i].compose_name}
            /\ Logged(i, "remove_file", TRUE)
            /\ cst' = [cst EXCEPT ![i] = "worktree"]
       ELSE /\ cst' = [cst EXCEPT ![i] = "err"]
            /\ Logged(i, "remove_file", FALSE)
            /\ UNCHANGED qoverrides
    /\ UNCHANGED <<qyes, qline, qworktrees, qsnapshot, qdirs, in_use, dirty,
                   to_clean_ws, to_clean_orphans, cleanups, qpc, qresult>>
    /\ UNCHANGED <<tvars, rvars, lvars, pvars, nvars, cvars, dvars, uvars, mvars, fvars>>

\* git worktree remove <path>, without --force: git removes a worktree whose
\* directory is missing or clean and refuses a dirty one.
CleanupWorktree(i) ==
    /\ qpc = "run"
    /\ cst[i] = "worktree"
    /\ LET path == cleanups[i].path
           refused == /\ path \in qdirs
                      /\ ws_map(path) # None
                      /\ ws_map(path)[1].dirty
                      /\ ~cleanups[i].force
       IN  IF ~cleanups[i].remove_worktree
           THEN /\ cst' = [cst EXCEPT ![i] = "ok"]
                /\ UNCHANGED <<qdirs, qlog>>
           ELSE IF refused
           THEN /\ cst' = [cst EXCEPT ![i] = "err"]
                /\ Logged(i, "worktree_remove", FALSE)
                /\ UNCHANGED qdirs
           ELSE /\ cst' = [cst EXCEPT ![i] = "ok"]
                /\ Logged(i, "worktree_remove", TRUE)
                /\ qdirs' = qdirs \ {path}
    /\ UNCHANGED <<qyes, qline, qworktrees, qsnapshot, qoverrides, in_use, dirty,
                   to_clean_ws, to_clean_orphans, cleanups, qpc, qresult>>
    /\ UNCHANGED <<tvars, rvars, lvars, pvars, nvars, cvars, dvars, uvars, mvars, fvars>>

\* runner::run_parallel has joined every task: the batch fails when a task
\* failed.
PruneJoin ==
    /\ qpc = "run"
    /\ \A i \in 1..Len(cst) : cst[i] \in {"ok", "err"}
    /\ PruneReturns(IF \E i \in 1..Len(cst) : cst[i] = "err"
                    THEN [kind |-> "err", msg |-> <<"cleanup">>]
                    ELSE [kind |-> "ok", msg |-> <<>>])
    /\ UNCHANGED <<qyes, qline, qworktrees, qsnapshot, qdirs, qoverrides, in_use, dirty,
                   to_clean_ws, to_clean_orphans, cleanups, cst, qlog>>
    /\ UNCHANGED <<tvars, rvars, lvars, pvars, nvars, cvars, dvars, uvars, mvars, fvars>>

PruneNext ==
    \/ PruneList
    \/ PruneClassify
    \/ PruneConfirm
    \/ \E i \in 1..Len(cst) : CleanupDown(i)
    \/ \E i \in 1..Len(cst) : CleanupOverrideExists(i)
    \/ \E i \in 1..Len(cst) : CleanupOverrideRemove(i)
    \/ \E i \in 1..Len(cst) : CleanupWorktree(i)
    \/ PruneJoin

(***************************************************************************)
(* cli/destroy.rs: destroy                                                 *)
(***************************************************************************)

DestroyIdle ==
    /\ dpath = <<>> /\ dforce = FALSE /\ dline = <<>> /\ ddirs = {} /\ dregistered = {}
    /\ ddirty = FALSE /\ doverride = FALSE /\ sidecars = {} /\ dpc = "done"
    /\ dresult = [kind |-> "none", msg |-> <<>>] /\ dlog = <<>>

\* The labels `dc fwd` puts on the sidecar of the workspace of compose name
\* slug in project (fwd.rs: labels.insert(..)).
FwdLabels(project, slug) ==
    {<<"dev.dc.fwd", "true">>,
     <<"dev.dc.fwd.project", project>>,
     <<"dev.dc.fwd.workspace", slug>>}

\* The engine's label filter: a container matches when it carries every
\* key=value of the filter.
MatchesLabels(c, filter) == filter \subseteq c.labels

\* format!("dc-fwd-{}", ws.compose_project_name)
sidecar_name(slug) == <<"d", "c", "-", "f", "w", "d", "-">> \o slug

\* The sidecar container fwd creates for a workspace: its name, its labels,
\* the host port it publishes, and whether it was started.
Sidecar(project, slug, host_port, started) ==
    [name |-> sidecar_name(slug), labels |-> FwdLabels(project, slug),
     port |-> host_port, running |-> started]

\* The sidecar fwd made for the workspace at path.
SidecarOf(path) == Sidecar(ProjectName, compose_project_name(path), 8080, TRUE)

DestroyInit ==
    /\ dpath \in {ProjectPath, PathA}
    /\ dforce \in BOOLEAN
    /\ dline = None
    /\ \E d \in SUBSET {PathA} : ddirs = {ProjectPath} \cup d
    /\ \E r \in SUBSET {PathA} : dregistered = {ProjectPath} \cup r
    /\ ddirty \in BOOLEAN
    /\ ddirty => dpath \in ddirs
    /\ doverride \in BOOLEAN
    /\ sidecars \in SUBSET {SidecarOf(PathA), SidecarOf(PathB)}
    /\ dpc = "lookup"
    /\ dresult = [kind |-> "none", msg |-> <<>>]
    /\ dlog = <<>>

\* The command returns r.
DestroyReturns(r) ==
    /\ dpc' = "done"
    /\ dresult' = r

\* run_cmd(args, dir): the command is run in a pseudo-terminal; success on
\* exit code 0, an error carrying the exit code otherwise.
run_cmd(es) ==
    IF Success(es) THEN Okay
    ELSE [kind |-> "err", msg |-> ExitMessage(CodeOf(es))]

\* resolve_workspace, Workspace::get, then `if !workspace.path.exists()`;
\* the root workspace asks first.
DestroyLookup ==
    /\ dpc = "lookup"
    /\ \E resolved \in BOOLEAN :
          IF ~resolved THEN DestroyReturns(Err("workspace"))
          ELSE IF dpath \notin ddirs THEN DestroyReturns(NoWorkspaceNamed(file_name(dpath)[1]))
          ELSE /\ dpc' = IF dpath = ProjectPath THEN "confirm" ELSE "down"
               /\ UNCHANGED dresult
    /\ UNCHANGED <<dpath, dforce, dline, ddirs, dregistered, ddirty, doverride, sidecars, dlog>>
    /\ UNCHANGED <<tvars, rvars, lvars, pvars, nvars, cvars, qvars, uvars, mvars, fvars>>

\* if !confirm()? { eprintln!("Aborted."); return Ok(()) }
DestroyConfirm ==
    /\ dpc = "confirm"
    /\ \E answer \in Answers :
          /\ dline' = Some(answer)
          /\ IF answer.kind = "err" THEN DestroyReturns(Err("stdin"))
             ELSE IF confirm(answer.line) THEN dpc' = "down" /\ UNCHANGED dresult
             ELSE DestroyReturns(Okay)
    /\ UNCHANGED <<dpath, dforce, ddirs, dregistered, ddirty, doverride, sidecars, dlog>>
    /\ UNCHANGED <<tvars, rvars, lvars, pvars, nvars, cvars, qvars, uvars, mvars, fvars>>

\* Mutant: the failure of compose down is not returned.
DestroyDownUnchecked ==
    /\ dpc = "down"
    /\ \E es \in ExitStatuses :
          /\ dlog' = Append(dlog, <<"compose_down",
                                    IF run_cmd(es) = Okay THEN "ok" ELSE "failed">>)
          /\ dpc' = "override"
          /\ UNCHANGED dresult
    /\ UNCHANGED <<dpath, dforce, dline, ddirs, dregistered, ddirty, doverride, sidecars>>
    /\ UNCHANGED <<tvars, rvars, lvars, pvars, nvars, cvars, qvars, uvars, mvars, fvars>>

\* Cleanup::run: run_cmd(["docker", "compose", "-p", compose_name, "down",
\* "-v", "--remove-orphans"], None).await?
DestroyDown ==
    /\ dpc = "down"
    /\ \E es \in ExitStatuses :
          IF run_cmd(es) = Okay
          THEN /\ dlog' = Append(dlog, <<"compose_down", "ok">>)
               /\ dpc' = "override"
               /\ UNCHANGED dresult
          ELSE /\ dlog' = Append(dlog, <<"compose_down", "failed">>)
               /\ DestroyReturns(run_cmd(es))
    /\ UNCHANGED <<dpath, dforce, dline, ddirs, dregistered, ddirty, doverride, sidecars>>
    /\ UNCHANGED <<tvars, rvars, lvars, pvars, nvars, cvars, qvars, uvars, mvars, fvars>>

\* if override_file.exists() { std::fs::remove_file(&override_file)? }
DestroyOverride ==
    /\ dpc = "override"
    /\ IF doverride
       THEN \E removed \in BOOLEAN :
               IF removed
               THEN doverride' = FALSE /\ dpc' = "sidecars" /\ UNCHANGED dresult
               ELSE DestroyReturns(Err("failed to remove")) /\ UNCHANGED doverride
       ELSE dpc' = "sidecars" /\ UNCHANGED <<doverride, dresult>>
    /\ UNCHANGED <<dpath, dforce, dline, ddirs, dregistered, ddirty, sidecars, dlog>>
    /\ UNCHANGED <<tvars, rvars, lvars, pvars, nvars, cvars, qvars, uvars, mvars, fvars>>

\* The filter of the sidecar removal: dev.dc.workspace=<compose_name>
CleanupFilter(slug) == {<<"dev.dc.workspace", slug>>}

\* list_containers with the filter, then remove_container of each container
\* listed; a failure to list or to remove is ignored.
DestroySidecars ==
    /\ dpc = "sidecars"
    /\ \E listed \in BOOLEAN :
          LET found == {c \in sidecars :
                           MatchesLabels(c, CleanupFilter(compose_project_name(dpath)))}
          IN  IF listed
              THEN /\ \E removed \in SUBSET found : sidecars' = sidecars \ removed
                   /\ dlog' = Append(dlog, <<"list_sidecars",
                                             IF found = {} THEN "none" ELSE "found">>)
              ELSE /\ dlog' = Append(dlog, <<"list_sidecars", "failed">>)
                   /\ UNCHANGED sidecars
    /\ dpc' = "worktree"
    /\ UNCHANGED <<dpath, dforce, dline, ddirs, dregistered, ddirty, doverride, dresult>>
    /\ UNCHANGED <<tvars, rvars, lvars, pvars, nvars, cvars, qvars, uvars, mvars, fvars>>

(***************************************************************************)
(* cli/fwd.rs, docker.rs: the labels of the port-forward sidecar           *)
(***************************************************************************)

LabelsIdle == fports = None /\ fwsports = None

\* fwd of a workspace, the two lookups of its forwarded ports, then the
\* sidecar removal of its Cleanup; another workspace of the project or of
\* another project may have a sidecar already.
LabelsInit ==
    /\ dpath \in {ProjectPath, PathA, PathB}
    /\ dforce = FALSE /\ dline = None /\ ddirty = FALSE /\ doverride = FALSE
    /\ ddirs = {ProjectPath, PathA, PathB}
    /\ dregistered = {ProjectPath, PathA, PathB}
    /\ sidecars \in SUBSET {SidecarOf(PathA), SidecarOf(PathB),
                             Sidecar("q", compose_project_name(PathA), 8080, TRUE)}
    /\ dpc = "fwd"
    /\ dresult = [kind |-> "none", msg |-> <<>>]
    /\ dlog = <<>>
    /\ fports = None
    /\ fwsports = None

\* remove_project_sidecars: the filter of the sidecars fwd replaces.
FwdRemoveFilter(project) ==
    {<<"dev.dc.fwd", "true">>, <<"dev.dc.fwd.project", project>>}

\* c.labels?.get(key): the values the container carries for a label.
LabelValues(c, key) == {l[2] : l \in {x \in c.labels : x[1] = key}}

\* check_port_available: a running container that does not carry the
\* project in dev.dc.fwd.project publishes the port.
PortTaken(cs, project, host_port) ==
    \E c \in cs :
        /\ c.running
        /\ project \notin LabelValues(c, "dev.dc.fwd.project")
        /\ c.port = host_port

\* Fwd::run from remove_project_sidecars on. The project's sidecars are
\* listed and removed, a failed removal being ignored (`let _ =`); the port
\* is checked among the running containers of others; the container is
\* inspected and the image ensured; the sidecar is created under its name,
\* which the engine refuses when a container has that name; and it is
\* started, which the engine refuses when the host port is bound.
FwdSidecar ==
    /\ dpc = "fwd"
    /\ \E host_port \in {3000, 8080}, listed \in BOOLEAN, prepared \in BOOLEAN :
       \E removed \in SUBSET {c \in sidecars : MatchesLabels(c, FwdRemoveFilter(ProjectName))} :
          LET kept == sidecars \ removed
              new == Sidecar(ProjectName, compose_project_name(dpath), host_port, TRUE)
          IN  IF ~listed
              THEN DestroyReturns(Err("list_containers")) /\ UNCHANGED sidecars
              ELSE IF PortTaken(kept, ProjectName, host_port)
              THEN DestroyReturns(Err("port is already published")) /\ sidecars' = kept
              ELSE IF ~prepared
              THEN DestroyReturns(Err("inspect_container")) /\ sidecars' = kept
              ELSE IF \E c \in kept : c.name = new.name
              THEN DestroyReturns(Err("create_container")) /\ sidecars' = kept
              ELSE IF \E c \in kept : c.running /\ c.port = host_port
              THEN /\ DestroyReturns(Err("start_container"))
                   /\ sidecars' = kept \cup {[new EXCEPT !.running = FALSE]}
              ELSE /\ sidecars' = kept \cup {new}
                   /\ dpc' = "ports"
                   /\ UNCHANGED dresult
    /\ UNCHANGED <<dpath, dforce, dline, ddirs, dregistered, ddirty, doverride, dlog>>
    /\ UNCHANGED fvars
    /\ UNCHANGED <<tvars, rvars, lvars, pvars, nvars, cvars, qvars, uvars, mvars>>

\* forwarded_ports: the filter of the listing.
ForwardedFilter(project) ==
    {<<"dev.dc.fwd", "true">>, <<"dev.dc.project", project>>}

\* workspace_forwarded_ports: the filter of the listing.
WorkspaceForwardedFilter(project, slug) ==
    {<<"dev.dc.fwd", "true">>, <<"dev.dc.project", project>>, <<"dev.dc.workspace", slug>>}

\* forwarded_ports(project): the containers the filter lists, each under its
\* dev.dc.workspace label with its public port.
forwarded_ports(project) ==
    UNION {{<<ws, c.port>> : ws \in LabelValues(c, "dev.dc.workspace")} :
              c \in {x \in sidecars : MatchesLabels(x, ForwardedFilter(project))}}

\* workspace_forwarded_ports(project, compose_project_name): the public
\* ports of the containers the filter lists.
workspace_forwarded_ports(project, slug) ==
    {c.port : c \in {x \in sidecars :
                        MatchesLabels(x, WorkspaceForwardedFilter(project, slug))}}

ForwardedPorts ==
    /\ dpc = "ports"
    /\ fports' = Some(forwarded_ports(ProjectName))
    /\ dpc' = "wsports"
    /\ UNCHANGED <<dpath, dforce, dline, ddirs, dregistered, ddirty, doverride, sidecars,
                   dresult, dlog>>
    /\ UNCHANGED fwsports
    /\ UNCHANGED <<tvars, rvars, lvars, pvars, nvars, cvars, qvars, uvars, mvars>>

WorkspaceForwardedPorts ==
    /\ dpc = "wsports"
    /\ fwsports' = Some(workspace_forwarded_ports(ProjectName, compose_project_name(dpath)))
    /\ dpc' = "sidecars"
    /\ UNCHANGED <<dpath, dforce, dline, ddirs, dregistered, ddirty, doverride, sidecars,
                   dresult, dlog>>
    /\ UNCHANGED fports
    /\ UNCHANGED <<tvars, rvars, lvars, pvars, nvars, cvars, qvars, uvars, mvars>>

\* if self.remove_worktree { run_cmd(["git", "worktree", "remove",
\* ("--force",) path], repo_path).await? }: git refuses a path that is no
\* worktree and, without --force, a dirty worktree.
DestroyWorktree ==
    /\ dpc = "worktree"
    /\ IF dpath = ProjectPath
       THEN /\ DestroyReturns(Okay)
            /\ UNCHANGED <<ddirs, dregistered, dlog>>
       ELSE IF dpath \in dregistered /\ (dforce \/ ~ddirty)
       THEN /\ dlog' = Append(dlog, <<"worktree_remove", "ok">>)
            /\ ddirs' = ddirs \ {dpath}
            /\ dregistered' = dregistered \ {dpath}
            /\ DestroyReturns(Okay)
       ELSE /\ dlog' = Append(dlog, <<"worktree_remove", "failed">>)
            /\ DestroyReturns(run_cmd(Some(128)))
            /\ UNCHANGED <<ddirs, dregistered>>
    /\ UNCHANGED <<dpath, dforce, dline, ddirty, doverride, sidecars>>
    /\ UNCHANGED <<tvars, rvars, lvars, pvars, nvars, cvars, qvars, uvars, mvars, fvars>>

DestroyNext ==
    \/ DestroyLookup
    \/ DestroyConfirm
    \/ DestroyDown
    \/ DestroyOverride
    \/ DestroySidecars
    \/ DestroyWorktree

(***************************************************************************)
(* cli/up.rs: up                                                           *)
(***************************************************************************)

UpIdle ==
    /\ uconf = {} /\ uroot = FALSE /\ upc = "done"
    /\ uresult = [kind |-> "none", msg |-> <<>>] /\ ulog = <<>>

\* The steps devcontainer.json or the command line may leave out.
OptionalSteps ==
    {"initializeCommand", "copy_volumes", "onCreateCommand", "updateContentCommand",
     "postCreateCommand", "postStartCommand", "forward", "exec_interactive"}

UpInit ==
    /\ uconf \in SUBSET OptionalSteps
    /\ uroot \in BOOLEAN
    /\ upc = "prepare"
    /\ uresult = [kind |-> "none", msg |-> <<>>]
    /\ ulog = <<>>

\* `?`: Up::run returns the error of the step.
UpFails(step) ==
    /\ upc' = "done"
    /\ uresult' = [kind |-> "err", msg |-> <<step>>]

\* Mutant: the result of the step is not looked at.
UpRunUnchecked(step, configured, next) ==
    /\ upc = step
    /\ IF configured
       THEN \E ok \in BOOLEAN :
               ulog' = Append(ulog, <<step, IF ok THEN "ok" ELSE "failed">>)
       ELSE UNCHANGED ulog
    /\ upc' = next
    /\ UNCHANGED uresult
    /\ UNCHANGED <<uconf, uroot>>
    /\ UNCHANGED <<tvars, rvars, lvars, pvars, nvars, cvars, qvars, dvars, mvars, fvars>>

\* if <configured> { <step>.await? }: the step is run when it is configured,
\* and Up::run goes on to the next one when it succeeded.
UpRun(step, configured, next) ==
    /\ upc = step
    /\ IF configured
       THEN \E ok \in BOOLEAN :
               IF ok
               THEN /\ ulog' = Append(ulog, <<step, "ok">>)
                    /\ upc' = next
                    /\ UNCHANGED uresult
               ELSE /\ ulog' = Append(ulog, <<step, "failed">>)
                    /\ UpFails(step)
       ELSE /\ upc' = next
            /\ UNCHANGED <<uresult, ulog>>
    /\ UNCHANGED <<uconf, uroot>>
    /\ UNCHANGED <<tvars, rvars, lvars, pvars, nvars, cvars, qvars, dvars, mvars, fvars>>

\* state.devcontainer()?, resolve_name, worktree::create, write_compose_override
UpPrepare ==
    /\ upc = "prepare"
    /\ \E ok \in BOOLEAN :
          IF ok THEN upc' = "initializeCommand" /\ UNCHANGED uresult
          ELSE UpFails("prepare")
    /\ UNCHANGED <<uconf, uroot, ulog>>
    /\ UNCHANGED <<tvars, rvars, lvars, pvars, nvars, cvars, qvars, dvars, mvars, fvars>>

\* if let Some(ref cmd) = dc.common.initialize_command { cmd.run_on_host(..).await? }
UpInitialize ==
    UpRun("initializeCommand", "initializeCommand" \in uconf, "copy_volumes")

\* if let Some(copy_args) = self.copy && !is_root { copy_volumes(..).await? }
UpCopy ==
    UpRun("copy_volumes", "copy_volumes" \in uconf /\ ~uroot, "compose_up")

\* compose_up(..).await?; let container_id = compose_ps_q(..).await?
UpComposeUp == UpRun("compose_up", TRUE, "onCreateCommand")

\* if let Some(ref cmd) = dc.common.on_create_command { cmd.run_in_container(..).await? }
UpOnCreate ==
    UpRun("onCreateCommand", "onCreateCommand" \in uconf, "updateContentCommand")

\* if let Some(ref cmd) = dc.common.update_content_command { .. }
UpUpdateContent ==
    UpRun("updateContentCommand", "updateContentCommand" \in uconf, "postCreateCommand")

\* if let Some(ref cmd) = dc.common.post_create_command { .. }
UpPostCreate ==
    UpRun("postCreateCommand", "postCreateCommand" \in uconf, "postStartCommand")

\* if let Some(ref cmd) = dc.common.post_start_command { .. }
UpPostStart ==
    UpRun("postStartCommand", "postStartCommand" \in uconf, "forward")

\* if self.forward { forward(&state, name).await? }
UpForward == UpRun("forward", "forward" \in uconf, "exec_interactive")

\* if let Some(cmd_args) = self.exec { exec_interactive(..)? }
UpExec == UpRun("exec_interactive", "exec_interactive" \in uconf, "return")

\* Ok(())
UpReturn ==
    /\ upc = "return"
    /\ upc' = "done"
    /\ uresult' = Okay
    /\ UNCHANGED <<uconf, uroot, ulog>>
    /\ UNCHANGED <<tvars, rvars, lvars, pvars, nvars, cvars, qvars, dvars, mvars, fvars>>

UpNext ==
    \/ UpPrepare
    \/ UpInitialize
    \/ UpCopy
    \/ UpComposeUp
    \/ UpOnCreate
    \/ UpUpdateContent
    \/ UpPostCreate
    \/ UpPostStart
    \/ UpForward
    \/ UpExec
    \/ UpReturn

(***************************************************************************)
(* devcontainer/port_map.rs: PortMap                                       *)
(***************************************************************************)

NoPortMap == [kind |-> "none", host |-> 0, container |-> 0]

PortMapIdle ==
    /\ minput = [number |-> None, text |-> None] /\ mport = NoPortMap /\ mtext = None
    /\ mback = NoPortMap /\ mpc = "done"

\* PortMap { host, container }
PortMap(h, c) == [kind |-> "ok", host |-> h, container |-> c]

\* de::Error::invalid_value(..), and the error of the untagged enum
Rejected == [kind |-> "err", host |-> 0, container |-> 0]

\* The JSON values of the model.
JsonNumber(n) == [number |-> Some(n), text |-> None]
JsonString(s) == [number |-> None, text |-> Some(s)]

\* The characters of the strings that are enumerated, the strings of the
\* tests and strings at the ends of the range of a port.
PortChars == {"0", "8", "+", ":", "a"}
PortStrings ==
    SeqUpTo(PortChars, MaxPortLen)
    \cup {<<"3", "0", "0", "0">>,
          <<"3", "0", "0", "0", ":", "3", "0", "0", "1">>,
          <<"a", "b", "c", ":", "3", "0", "0", "0">>,
          <<"3", "0", "0", "0", ":", "a", "b", "c">>,
          <<"6", "5", "5", "3", "5">>,
          <<"6", "5", "5", "3", "6">>,
          <<"9", "9", "9", "9", "9">>,
          <<"0", "0", "0", "0", "8", "0">>,
          <<"8", "0", ":", "6", "5", "5", "3", "5">>,
          <<"8", "0", ":", "6", "5", "5", "3", "6">>,
          <<"7", "0", "0", "0", "0", ":", "8", "0">>,
          <<"8", ":", "8", ":", "8", "0">>,
          <<"8", "0", " ">>,
          <<"-", "8", "0">>}
PortNumbers == {-1, 0, 80, 3000, U16Max, U16Max + 1}
PortValues == {0, 80, 3000, 3001, U16Max}

\* Either a JSON value is deserialized, serialized and read again, or a
\* PortMap is serialized and read again.
PortMapInit ==
    /\ \/ /\ minput \in {JsonNumber(n) : n \in PortNumbers}
                        \cup {JsonString(s) : s \in PortStrings}
          /\ mport = NoPortMap
          /\ mpc = "deserialize"
       \/ /\ minput = [number |-> None, text |-> None]
          /\ mport \in {PortMap(h, c) : h \in PortValues, c \in PortValues}
          /\ mpc = "serialize"
    /\ mtext = None
    /\ mback = NoPortMap

\* The value of a decimal digit, none for another character.
DigitOf(c) ==
    IF \E d \in 0..9 : DigitChar(d) = c
    THEN Some(CHOOSE d \in 0..9 : DigitChar(d) = c)
    ELSE None

\* The digits of s are accumulated from the left with checked_mul(10) and
\* checked_add(digit): none on a character that is no digit or on overflow.
RECURSIVE Accumulate(_, _)
Accumulate(acc, s) ==
    IF s = <<>> THEN Some(acc)
    ELSE IF DigitOf(Head(s)) = None THEN None
    ELSE IF acc * 10 + DigitOf(Head(s))[1] > U16Max THEN None
    ELSE Accumulate(acc * 10 + DigitOf(Head(s))[1], Tail(s))

\* Mutant: a part without digits is port 0.
parse_u16_or_zero(s) ==
    LET digits == IF s # <<>> /\ Head(s) = "+" THEN Tail(s) ELSE s
    IN  IF digits = <<>> THEN Some(0) ELSE Accumulate(0, digits)

\* str::parse::<u16>(): an optional '+', then at least one digit.
parse_u16(s) ==
    LET digits == IF s # <<>> /\ Head(s) = "+" THEN Tail(s) ELSE s
    IN  IF digits = <<>> THEN None ELSE Accumulate(0, digits)

\* s.split_once(':'): the parts before and after the first ':'.
split_once(s) ==
    IF \E k \in 1..Len(s) : s[k] = ":"
    THEN LET k == Min({j \in 1..Len(s) : s[j] = ":"})
         IN  Some(<<SubSeq(s, 1, k - 1), SubSeq(s, k + 1, Len(s))>>)
    ELSE None

\* PortMap::deserialize of a JSON value: Raw::Number(u16) or Raw::String.
deserialize(v) ==
    IF v.number # None
    THEN IF v.number[1] \in 0..U16Max THEN PortMap(v.number[1], v.number[1])
         ELSE Rejected
    ELSE LET s == v.text[1] IN
         IF split_once(s) # None
         THEN LET host == parse_u16(split_once(s)[1][1])
                  container == parse_u16(split_once(s)[1][2])
              IN  IF host = None \/ container = None THEN Rejected
                  ELSE PortMap(host[1], container[1])
         ELSE LET port == parse_u16(s)
              IN  IF port = None THEN Rejected ELSE PortMap(port[1], port[1])

\* Mutant: the container port is written first.
serialize_container_first(pm) == Decimal(pm.container) \o <<":">> \o Decimal(pm.host)

\* PortMap::serialize: format!("{}:{}", self.host, self.container)
serialize(pm) == Decimal(pm.host) \o <<":">> \o Decimal(pm.container)

\* let pm: PortMap = serde_json::from_str(..)
PortMapDeserialize ==
    /\ mpc = "deserialize"
    /\ mport' = deserialize(minput)
    /\ mpc' = IF mport'.kind = "ok" THEN "serialize" ELSE "done"
    /\ UNCHANGED <<minput, mtext, mback>>
    /\ UNCHANGED <<tvars, rvars, lvars, pvars, nvars, cvars, qvars, dvars, uvars, fvars>>

\* serde_json::to_string(&pm)
PortMapSerialize ==
    /\ mpc = "serialize"
    /\ mtext' = Some(serialize(mport))
    /\ mpc' = "reread"
    /\ UNCHANGED <<minput, mport, mback>>
    /\ UNCHANGED <<tvars, rvars, lvars, pvars, nvars, cvars, qvars, dvars, uvars, fvars>>

\* serde_json::from_str of what was serialized
PortMapReread ==
    /\ mpc = "reread"
    /\ mback' = deserialize(JsonString(mtext[1]))
    /\ mpc' = "done"
    /\ UNCHANGED <<minput, mport, mtext>>
    /\ UNCHANGED <<tvars, rvars, lvars, pvars, nvars, cvars, qvars, dvars, uvars, fvars>>

PortMapNext ==
    \/ PortMapDeserialize
    \/ PortMapSerialize
    \/ PortMapReread

(***************************************************************************)
(* Specifications                                                          *)
(***************************************************************************)

OldIdle == ThreadIdle /\ RunIdle /\ ListIdle /\ PtyIdle /\ NamedIdle
ExtIdle == NameIdle /\ PruneIdle /\ DestroyIdle /\ UpIdle /\ PortMapIdle /\ LabelsIdle

InitThread == ThreadInit /\ RunIdle /\ ListIdle /\ PtyIdle /\ NamedIdle /\ ExtIdle
NextThread == ThreadNext
SpecThread == InitThread /\ [][NextThread]_vars

\* A batch on scoped threads whose bodies may await I/O. The operating system
\* runs every thread: the caller goes on while it is not blocked in join(),
\* and a body that can end does end.
InitThreadIo == ThreadIoInit /\ RunIdle /\ ListIdle /\ PtyIdle /\ NamedIdle /\ ExtIdle
FairThreadIo ==
    /\ WF_vars(ThreadSpawn \/ ThreadCollect \/ ThreadJoin \/ ThreadReturn)
    /\ \A i \in 1..MaxTasks :
          /\ WF_vars(i <= Len(cmds) /\ ThreadBodyStart(i))
          /\ WF_vars(i <= Len(cmds) /\ ThreadBodyEnd(i))
SpecThreadIo == InitThreadIo /\ [][NextThread]_vars /\ FairThreadIo

InitRun == RunInit /\ ThreadIdle /\ ListIdle /\ PtyIdle /\ NamedIdle /\ ExtIdle
NextRun == RunNext
SpecRun == InitRun /\ [][NextRun]_vars

InitList == ListInit /\ ThreadIdle /\ RunIdle /\ PtyIdle /\ NamedIdle /\ ExtIdle
NextList == ListNext
SpecList == InitList /\ [][NextList]_vars

InitEnrich == EnrichInit /\ ThreadIdle /\ RunIdle /\ PtyIdle /\ NamedIdle /\ ExtIdle
NextEnrich == ListNext
SpecEnrich == InitEnrich /\ [][NextEnrich]_vars

InitRelist == RelistInit /\ ThreadIdle /\ RunIdle /\ PtyIdle /\ NamedIdle /\ ExtIdle
NextRelist == ListNext \/ ListAgain
SpecRelist == InitRelist /\ [][NextRelist]_vars

InitScope == ScopeInit /\ ThreadIdle /\ RunIdle /\ PtyIdle /\ NamedIdle /\ ExtIdle
NextScope == ListNext
SpecScope == InitScope /\ [][NextScope]_vars

InitPty == PtyInit /\ ThreadIdle /\ RunIdle /\ ListIdle /\ NamedIdle /\ ExtIdle
NextPty == PtyNext
SpecPty == InitPty /\ [][NextPty]_vars

InitNamed == NamedInit /\ ThreadIdle /\ RunIdle /\ ListIdle /\ PtyIdle /\ ExtIdle
NextNamed == NamedNext
SpecNamed == InitNamed /\ [][NextNamed]_vars

InitPrune == PruneInit /\ OldIdle /\ NameIdle /\ DestroyIdle /\ UpIdle /\ PortMapIdle /\ LabelsIdle
NextPrune == PruneNext
SpecPrune == InitPrune /\ [][NextPrune]_vars

InitKill == KillInit /\ ThreadIdle /\ RunIdle /\ ListIdle /\ PtyIdle /\ ExtIdle
NextKill == KillLookup \/ KillConfirm \/ KillAct
SpecKill == InitKill /\ [][NextKill]_vars

InitDestroy == DestroyInit /\ OldIdle /\ NameIdle /\ PruneIdle /\ UpIdle /\ PortMapIdle /\ LabelsIdle
NextDestroy == DestroyNext
SpecDestroy == InitDestroy /\ [][NextDestroy]_vars

\* kill or destroy of a workspace
InitTeardown == InitKill \/ InitDestroy
NextTeardown == NextKill \/ NextDestroy
SpecTeardown == InitTeardown /\ [][NextTeardown]_vars

InitUp == UpInit /\ OldIdle /\ NameIdle /\ PruneIdle /\ DestroyIdle /\ PortMapIdle /\ LabelsIdle
NextUp == UpNext
SpecUp == InitUp /\ [][NextUp]_vars

InitPortMap == PortMapInit /\ OldIdle /\ NameIdle /\ PruneIdle /\ DestroyIdle /\ UpIdle /\ LabelsIdle
NextPortMap == PortMapNext
SpecPortMap == InitPortMap /\ [][NextPortMap]_vars

InitLabels == LabelsInit /\ OldIdle /\ NameIdle /\ PruneIdle /\ UpIdle /\ PortMapIdle
NextLabels == FwdSidecar \/ ForwardedPorts \/ WorkspaceForwardedPorts \/ DestroySidecars
SpecLabels == InitLabels /\ [][NextLabels]_vars

InitName == NameInit /\ OldIdle /\ PruneIdle /\ DestroyIdle /\ UpIdle /\ PortMapIdle /\ LabelsIdle
NextName == NameNext
SpecName == InitName /\ [][NextName]_vars

(***************************************************************************)
(* Properties of the task runners                                          *)
(***************************************************************************)

TFailedSet == {i \in 1..Len(cmds) : thr[i] = "Failed"}
RFailedSet == {i \in 1..Len(runnables) : st[i] = "Failed"}
WillFail == {i \in 1..Len(runnables) : runnables[i].outcome = "err"}

\* C1: when the thread-scoped run_parallel has returned, every body of the
\* batch was started and has run to its end, whatever the others returned.
C1_AllBodiesComplete ==
    tpc = "done" => \A i \in 1..Len(cmds) : thr[i] \in Finished /\ tinvoked[i] = 1

\* The batch [ok, err, ok] has returned.
C1_Witness == tpc = "done" /\ cmds = <<"ok", "err", "ok">>

\* C2: the thread-scoped run_parallel returns Ok iff no task failed, and
\* otherwise the error of the failed task with the lowest index.
C2_FirstErrorByIndex ==
    tpc = "done" =>
        tresult = IF TFailedSet = {} THEN [kind |-> "ok"]
                  ELSE [kind |-> "err", src |-> Min(TFailedSet)]

\* Two tasks failed, the one with the higher index first in time.
C2_Witness ==
    /\ tpc = "done"
    /\ Len(tfailed) >= 2
    /\ tfailed[1] > tfailed[2]
    /\ tresult.kind = "err"

\* C3: when Runner::run_parallel has returned, every body of the batch has
\* run to its end.
C3_AllSiblingsFinish ==
    (call = "run_parallel" /\ rpc = "done") =>
        \A i \in 1..Len(runnables) : st[i] \in Finished

\* C4: Runner::run_parallel returns after every task has finished, with Ok
\* iff no task fails and else with the error of the lowest failing index.
C4_ReturnsLowestIndexError ==
    (call = "run_parallel" /\ rpc = "done") =>
        /\ \A i \in 1..Len(runnables) : st[i] \in Finished
        /\ rresult = IF WillFail = {} THEN [kind |-> "ok"]
                     ELSE WrapErr(BodyErr(Min(WillFail)), Ctx(Min(WillFail)))

\* C5: Runner::run and Runner::run_parallel return Ok only if no body
\* failed; an error they return is the error of a body that failed, with
\* that task's own name as its context.
C5_ErrorCarriesTaskName ==
    rpc = "done" =>
        /\ (rresult.kind = "ok") <=> (RFailedSet = {})
        /\ rresult.kind # "ok" =>
              /\ rresult.kind = "err"
              /\ rresult.src \in RFailedSet
              /\ rresult.ctx = <<runnables[rresult.src].name>>
        /\ call = "run" => ((rresult.kind = "ok") <=> (runnables[1].outcome = "ok"))

\* A batch returned the error of a task that is not the first and whose name
\* differs from the first task's.
C5_Witness ==
    /\ call = "run_parallel"
    /\ rpc = "done"
    /\ rresult.kind = "err"
    /\ rresult.src > 1
    /\ runnables[rresult.src].name # runnables[1].name

\* C6: a body that has executed was invoked with the Runner's token, inside
\* the span the Runner opened for that task.
C6_BodyRunsInRunnerScope ==
    \A i \in 1..Len(runnables) :
        st[i] # "Pending" =>
            /\ bodyCtx[i].token = TOK
            /\ bodyCtx[i].spans # <<>>
            /\ bodyCtx[i].spans[Len(bodyCtx[i].spans)] =
                  IF call = "run" THEN RunSpan(runnables[i].name)
                  ELSE ParallelSpan(runnables[i].name)

\* A body of a batch, not the first, is suspended in the middle of its run.
C6_Witness ==
    /\ call = "run_parallel"
    /\ \E i \in 2..Len(runnables) : st[i] = "Running"

\* C7: a body is never invoked twice, and once the runner has returned every
\* task was invoked exactly once and is Succeeded or Failed.
C7_InvokedExactlyOnce ==
    /\ \A i \in 1..Len(runnables) : rinvoked[i] = IF st[i] = "Pending" THEN 0 ELSE 1
    /\ rpc = "done" =>
          \A i \in 1..Len(runnables) : rinvoked[i] = 1 /\ st[i] \in Finished

(***************************************************************************)
(* Properties of the reconciler                                            *)
(***************************************************************************)

\* The summaries the engine lists for the filter and docker_ps turns into a
\* ContainerInfo; summary i has id i.
Discovered ==
    {i \in 1..Len(engine) : MatchesFilter(engine[i], scope)
                            /\ engine[i].labels /\ engine[i].folder # None
                            /\ engine[i].id # None /\ engine[i].state # None}
LabelOf(i) == engine[i].folder[1]
At(path) == {i \in Discovered : LabelOf(i) = path}
IdsAt(path) == SelectSeq([i \in 1..Len(engine) |-> i], LAMBDA i : i \in At(path))
InScopeWorktrees == {gitOut[k] : k \in 1..Len(gitOut)} \cap Paths
Occurrences(seq, x) == Cardinality({n \in 1..Len(seq) : seq[n] = x})

\* The order of the Status: None < Dead < Exited < Removing < Created < Paused
\* < Restarting < Running.
MostAliveRank(x) ==
    CASE x = EMPTY -> 0
      [] x = "dead" -> 1
      [] x = "exited" -> 2
      [] x = "removing" -> 3
      [] x = "created" -> 4
      [] x = "paused" -> 5
      [] x = "restarting" -> 6
      [] x = "running" -> 7

\* C8: the status of a listed workspace is the most alive of the states of
\* its containers, and None (EMPTY) when it has no container.
C8_StatusIsMostAlive ==
    lpc = "done" =>
        \A k \in 1..Len(workspaces) :
            LET ws == workspaces[k]
                ss == {engine[i].state[1] : i \in At(ws.path)}
            IN  IF ss = {} THEN ws.status = EMPTY
                ELSE /\ ws.status \in ss
                     /\ \A x \in ss : MostAliveRank(x) <= MostAliveRank(ws.status)

\* C9: the listing has exactly one workspace for each path that is a
\* container's worktree-path label or an in-scope worktree, and every
\* discovered container id is once in the workspace of its label and in no other.
C9_OneWorkspacePerPath ==
    lpc = "done" =>
        /\ \A j, k \in 1..Len(workspaces) :
              j # k => workspaces[j].path # workspaces[k].path
        /\ {workspaces[k].path : k \in 1..Len(workspaces)} =
              {LabelOf(i) : i \in Discovered} \cup InScopeWorktrees
        /\ \A i \in Discovered, k \in 1..Len(workspaces) :
              Occurrences(workspaces[k].container_ids, i) =
                  IF workspaces[k].path = LabelOf(i) THEN 1 ELSE 0

\* Containers C1 (running) and C2 (exited) at /ws/a, worktrees /ws/a and
\* /ws/b: two workspaces, /ws/a with two container ids and /ws/b with none.
C9_Witness ==
    /\ lpc = "done"
    /\ Len(engine) = 2
    /\ Discovered = {1, 2}
    /\ LabelOf(1) = "/ws/a" /\ LabelOf(2) = "/ws/a"
    /\ engine[1].state = Some("running") /\ engine[2].state = Some("exited")
    /\ gitOut = <<RepoPath, "/ws/a", "/ws/b">>
    /\ Len(workspaces) = 2
    /\ \E j, k \in 1..2 :
          /\ workspaces[j].path = "/ws/a" /\ Len(workspaces[j].container_ids) = 2
          /\ workspaces[k].path = "/ws/b" /\ Len(workspaces[k].container_ids) = 0

\* C10: an in-scope worktree without container is listed with status None,
\* no container id, no exec session and no stats; the group of a worktree
\* that has containers is, after the merge, what the containers made it.
C10_WorktreeMergeKeepsGroups ==
    /\ lpc = "done" =>
          \A path \in InScopeWorktrees :
              At(path) = {} =>
                  \E k \in 1..Len(workspaces) :
                      /\ workspaces[k].path = path
                      /\ workspaces[k].status = EMPTY
                      /\ workspaces[k].container_ids = <<>>
                      /\ workspaces[k].execs = <<>>
                      /\ workspaces[k].stats = None
    /\ lpc \in {"enrich", "build", "done"} =>
          \A path \in InScopeWorktrees :
              At(path) # {} =>
                  LET ids == IdsAt(path)
                      label == engine[ids[1]].project
                  IN  /\ path \in DOMAIN groups
                      /\ groups[path].container_ids = ids
                      /\ groups[path].states =
                            [n \in 1..Len(ids) |-> engine[ids[n]].state[1]]
                      /\ groups[path].project = IF label = None THEN "" ELSE label[1]

\* A listing with a worktree that has no container and a worktree whose
\* containers carry a project label other than the scanned project's name.
C10_Witness ==
    /\ lpc = "done"
    /\ \E path \in InScopeWorktrees : At(path) = {}
    /\ \E path \in InScopeWorktrees :
          At(path) # {} /\ groups[path].project # ProjectName

\* The containers docker_ps returned, as the ids of their summaries.
ContainerIdsListed == [k \in 1..Len(containers) |-> containers[k].id]
WellFormedIds == SelectSeq([i \in 1..Len(engine) |-> i], LAMBDA i : i \in Discovered)

\* C11: a failure to fetch the stats or the exec sessions of a container
\* never makes the listing fail; only a failure of the discovery does.
C11_EnrichmentNeverFailsListing == lerr # "enrich"

\* C12: a summary with a missing part (labels, worktree-path label, id or
\* state) never makes the listing fail: it is passed over, and the discovery
\* returns the containers of the other summaries.
C12_MalformedRecordSkipped ==
    /\ lerr # "parse"
    /\ lpc = "group" => ContainerIdsListed = WellFormedIds

\* The elements of a sequence.
AsSet(seq) == {seq[k] : k \in 1..Len(seq)}

C14_DirtyFromGitStatus ==
    /\ \A k \in 1..Len(workspaces) :
          LET path == workspaces[k].path IN
          /\ workspaces[k].dirty <=> fs[path] = "dirty"
          /\ fs[path] = "missing" => ~workspaces[k].dirty
          /\ path \in statusRun <=> fs[path] # "missing"
    /\ \A path \in statusRun : fs[path] # "missing"
    /\ lerr = "status" => \E path \in Paths : fs[path] # "missing"

\* A listing of /ws/a, whose directory is gone, and of /ws/b, dirty.
C14_Witness ==
    /\ lpc = "done"
    /\ fs["/ws/a"] = "missing" /\ fs["/ws/b"] = "dirty"
    /\ \E j, k \in 1..Len(workspaces) :
          /\ workspaces[j].path = "/ws/a" /\ ~workspaces[j].dirty
          /\ workspaces[k].path = "/ws/b" /\ workspaces[k].dirty
    /\ statusRun = {"/ws/b"}

\* The sum of f[x] over the x of a finite set.
RECURSIVE SumOver(_, _)
SumOver(S, f) ==
    IF S = {} THEN 0
    ELSE LET x == CHOOSE y \in S : TRUE IN f[x] + SumOver(S \ {x}, f)

\* C15: the Stats of a listed workspace are absent iff it has no container;
\* otherwise its RAM is the sum of the memory usage of its containers and its
\* CPU percent the sum of their CPU percents, absent under Speed::Fast.
C15_StatsAreSums ==
    lpc = "done" =>
        \A k \in 1..Len(workspaces) :
            LET ws == workspaces[k]
                ids == AsSet(ws.container_ids)
                withCpu == {id \in ids : samples[id].second # None}
            IN  /\ ws.stats = None <=> ids = {}
                /\ ws.stats # None =>
                      /\ ws.stats[1].ram = SumOver(ids, [id \in ids |-> samples[id].usage[1]])
                      /\ speed = "Fast" => ws.stats[1].cpu = None
                      /\ speed = "Slow" =>
                            ws.stats[1].cpu =
                                IF withCpu = {} THEN None
                                ELSE Some(SumOver(withCpu, [id \in withCpu |-> samples[id].second[1]]))

\* A Slow listing with a workspace of two containers that both have a CPU
\* percent, and a worktree without container.
C15_Witness ==
    /\ lpc = "done"
    /\ speed = "Slow"
    /\ \E j, k \in 1..Len(workspaces) :
          /\ Len(workspaces[j].container_ids) = 2
          /\ \A n \in 1..2 : samples[workspaces[j].container_ids[n]].second # None
          /\ samples[workspaces[j].container_ids[1]] # samples[workspaces[j].container_ids[2]]
          /\ workspaces[k].container_ids = <<>>
          /\ workspaces[k].stats = None

\* The containers of project ProjectName labelled with the path.
OwnAt(path) ==
    {i \in 1..Len(engine) : engine[i].project = Some(ProjectName)
                            /\ engine[i].folder = Some(path)}

\* C16: every workspace list_project(Some(p)) returns has project p, and
\* only containers labelled with project p contribute to it, also when a
\* container of another project is labelled with the path of a worktree of p.
C16_ProjectScoping ==
    (scope = Some(ProjectName) /\ lpc = "done") =>
        \A k \in 1..Len(workspaces) :
            LET ws == workspaces[k] IN
            /\ ws.project = ProjectName
            /\ AsSet(ws.container_ids) = OwnAt(ws.path)
            /\ ws.stats = IF OwnAt(ws.path) = {} THEN None
                          ELSE Some([ram |-> SumOver(OwnAt(ws.path), [i \in OwnAt(ws.path) |-> RamOf(i)]),
                                     cpu |-> IF speed = "Fast" THEN None
                                             ELSE Some(SumOver(OwnAt(ws.path), [i \in OwnAt(ws.path) |-> CpuOf(i)]))])
            /\ Len(ws.execs) = Cardinality({i \in OwnAt(ws.path) : i % 2 = 1})

\* /ws/a is a worktree of the project and the label of a container of
\* project q and of a container of the project.
C16_Witness ==
    /\ scope = Some(ProjectName)
    /\ lpc = "done"
    /\ "/ws/a" \in InScopeWorktrees
    /\ \E i, j \in 1..Len(engine) :
          /\ engine[i].project = Some("q") /\ engine[i].folder = Some("/ws/a")
          /\ engine[j].project = Some(ProjectName) /\ engine[j].folder = Some("/ws/a")
    /\ \E k \in 1..Len(workspaces) : workspaces[k].path = "/ws/a"

\* No workspace of the listing has the name the command was given.
NamedAbsent ==
    \/ find_workspace(listing, nname) = None
    \/ nop = "copy" /\ find_workspace(listing, nto) = None

\* C17: when no workspace has the name given to exec --name, fwd --name,
\* copy --from / --to or kill, the command performs no container, sidecar or
\* worktree action and returns a not-found error.
C17_NotFoundNoAction ==
    NamedAbsent =>
        /\ nactions = <<>>
        /\ npc = "done" =>
              nresult \in {NoWorkspaceFound(nname), NoWorkspaceFound(nto),
                           NoWorkspaceNamed(nname)}

\* The sessions of the containers ids, one container after the other.
RECURSIVE Flatten(_, _)
Flatten(ids, f) ==
    IF ids = <<>> THEN <<>> ELSE f[Head(ids)] \o Flatten(Tail(ids), f)

\* The running sessions of a container, with entrypoint then arguments.
RunningSessions(id) ==
    LET running == SelectSeq(sessions[id], LAMBDA x : x.running = Some(TRUE))
    IN  [n \in 1..Len(running) |->
            LET pc == running[n].process_config IN
            [pid |-> running[n].pid[1],
             command |->
                IF pc = None THEN <<>>
                ELSE (IF pc[1].entrypoint = None THEN <<>> ELSE <<pc[1].entrypoint[1]>>)
                     \o (IF pc[1].arguments = None THEN <<>> ELSE pc[1].arguments[1])]]

\* C18: the exec sessions of a listed workspace are exactly the running
\* exec sessions of its containers, each with the command entrypoint
\* followed by arguments.
C18_ExecsAreRunningSessions ==
    lpc = "done" =>
        \A k \in 1..Len(workspaces) :
            workspaces[k].execs =
                Flatten(workspaces[k].container_ids,
                        [id \in 1..Len(engine) |-> RunningSessions(id)])

\* A workspace whose containers have a session that is not running, a
\* running one without process_config and one with entrypoint and arguments.
C18_Witness ==
    /\ lpc = "done"
    /\ \E k \in 1..Len(workspaces) :
          /\ \E n \in 1..Len(workspaces[k].execs) :
                workspaces[k].execs[n].command = <<"sh", "-c", "ls">>
          /\ \E n \in 1..Len(workspaces[k].execs) :
                workspaces[k].execs[n].command = <<>>
          /\ \E n \in 1..Len(workspaces[k].container_ids) :
                \E x \in AsSet(sessions[workspaces[k].container_ids[n]]) :
                    x.running = Some(FALSE)

\* sub occurs in msg as a run of consecutive characters.
Contains(msg, sub) ==
    \E i \in 1..(Len(msg) - Len(sub) + 1) : SubSeq(msg, i, i + Len(sub) - 1) = sub

\* C19 as stated: run_in_pty returns success iff the child exits with code 0,
\* and for a non-zero exit code c an error whose message contains c.
C19_SuccessIffExitZero ==
    (ppc = "done" /\ child = "spawned") =>
        /\ presult.kind = "ok" <=> exit = Some(0)
        /\ (exit # None /\ exit # Some(0)) =>
              presult.kind = "err" /\ Contains(presult.msg, Decimal(exit[1]))

\* C19, amended: run_in_pty returns success iff the reading ended with end
\* of file or EIO and child.wait() reported exit code 0; when wait reports a
\* non-zero code c it returns an error whose message contains c.
C19_SuccessIffWaitedExitZero ==
    ppc = "done" =>
        /\ presult.kind = "ok" <=> status = Some(Some(0))
        /\ \A c \in 1..255 :
              status = Some(Some(c)) =>
                  presult.kind = "err" /\ Contains(presult.msg, Decimal(c))

\* The child printed a line and exited with code 7.
C19_Witness ==
    /\ ppc = "done"
    /\ status = Some(Some(7))
    /\ traced # <<>>
    /\ presult.kind = "err"
    /\ Contains(presult.msg, <<"7">>)

\* The last result read from the pty.
LastRead == stream[pos]

\* C20: a read error with OS error 5 ends the reading as end of file does:
\* run_in_pty then waits for the child and its result is decided by the exit
\* status alone; any other read error is returned as failure.
C20_EioIsEndOfStream ==
    /\ ppc = "wait" => LastRead \in {Eof, ReadErr(Some(EIO))}
    /\ (ppc = "done" /\ pos > 0 /\ LastRead = ReadErr(Some(EIO)) /\ ~waitErr) =>
          /\ status = Some(exit)
          /\ presult.kind = "ok" <=> exit = Some(0)
          /\ presult.kind = "err" <=> exit # Some(0)
    /\ (ppc = "done" /\ pos > 0 /\ LastRead.tag = "err" /\ LastRead.os # Some(EIO)) =>
          /\ presult = [kind |-> "err", msg |-> <<"read">>]
          /\ status = None

\* After two lines the read returned EIO; the child had exited with code 0.
C20_Witness ==
    /\ ppc = "done"
    /\ Len(traced) = 2
    /\ LastRead = ReadErr(Some(EIO))
    /\ presult.kind = "ok"

\* The lines among the first n results of the stream, in order.
LinesRead(n) ==
    LET ls == SelectSeq(SubSeq(stream, 1, n), LAMBDA r : r.tag = "line")
    IN  [k \in 1..Len(ls) |-> ls[k].text]

\* C21 as stated: when run_in_pty has returned, every line of the child's
\* output was emitted as a trace event, in the order of the output.
C21_EveryLineTraced ==
    (ppc = "done" /\ child = "spawned") => traced = LinesRead(Len(stream))

\* C21, amended: the trace events are, at every moment, the lines read so
\* far in the order they were read; when the reading ended with end of file
\* or EIO they are all the lines of the output; the exit status is awaited
\* only after that end, and a failed read ends run_in_pty without it.
C21_LinesTracedInReadOrder ==
    /\ traced = LinesRead(pos)
    /\ ppc = "wait" => pos = Len(stream) /\ traced = LinesRead(Len(stream))
    /\ status # None =>
          /\ pos = Len(stream)
          /\ LastRead \in {Eof, ReadErr(Some(EIO))}
          /\ traced = LinesRead(Len(stream))

\* Two different lines were read and traced, then the stream ended and the
\* status was taken.
C21_Witness ==
    /\ ppc = "done"
    /\ status # None
    /\ traced = <<"out", "warn">>

\* The lower-case letters, the digits, '-' and '_'.
AllowedChars == {LowerChars[k] : k \in 1..Len(LowerChars)} \cup DigitChars \cup {"-", "_"}

\* The lower-case form of a sequence of characters.
Lowered(s) == [k \in 1..Len(s) |-> to_lowercase(s[k])]

\* The base name of the path the name was computed for, empty when the
\* path has none.
BaseOfPath == IF file_name(cpath) = None THEN <<>> ELSE file_name(cpath)[1]

\* C22: the compose project name of a worktree path is a function of the
\* path alone: the lower-case form of "{basename}_devcontainer" without the
\* characters outside [a-z0-9-_]; .../my_Worktree! gives
\* my_worktree_devcontainer.
C22_ComposeProjectName ==
    cname # None =>
        /\ \A k \in 1..Len(cname[1]) : cname[1][k] \in AllowedChars
        /\ cname[1] = SelectSeq(Lowered(BaseOfPath), LAMBDA c : c \in AllowedChars)
                          \o <<"_", "d", "e", "v", "c", "o", "n", "t", "a", "i", "n", "e", "r">>
        /\ cpath = ExamplePath =>
              cname[1] = <<"m", "y", "_", "w", "o", "r", "k", "t", "r", "e", "e",
                           "_", "d", "e", "v", "c", "o", "n", "t", "a", "i", "n", "e", "r">>

C22_Witness ==
    /\ cpath = ExamplePath
    /\ cname = Some(<<"m", "y", "_", "w", "o", "r", "k", "t", "r", "e", "e",
                      "_", "d", "e", "v", "c", "o", "n", "t", "a", "i", "n", "e", "r">>)

\* The workspaces of the snapshot that have a running exec session or are
\* dirty, among the worktrees prune looks at.
Busy ==
    {k \in 1..Len(qsnapshot) :
        /\ \E j \in 1..Len(qworktrees) : qworktrees[j] = qsnapshot[k].path
        /\ qsnapshot[k].execs # <<>> \/ qsnapshot[k].dirty}

\* C23: prune schedules no Cleanup for a workspace that has a running exec
\* session or is dirty in its snapshot, and reports each such workspace as
\* skipped (in use or dirty).
C23_PruneSkipsBusy ==
    /\ \A i \in 1..Len(cleanups) : \A k \in Busy : cleanups[i].path # qsnapshot[k].path
    /\ qpc \in {"confirm", "run"} =>
          \A k \in Busy :
             \/ \E j \in 1..Len(in_use) : in_use[j].path = qsnapshot[k].path
             \/ \E j \in 1..Len(dirty) : dirty[j].path = qsnapshot[k].path

\* The Cleanup tasks of the batch that have started and not yet finished.
Acting == {i \in 1..Len(cst) : qpc = "run" /\ cst[i] \notin {"ok", "err"}}

\* {temp_dir}/{compose_name}-override.yml
override_file(c) == c.compose_name \o <<"-", "o", "v", "e", "r", "r", "i", "d", "e", ".", "y", "m", "l">>

\* C30: in a prune batch no two Cleanup tasks act on the same compose
\* project name or on the same override file.
C30_CleanupsDisjoint ==
    \A i, j \in Acting :
        i # j => /\ cleanups[i].compose_name # cleanups[j].compose_name
                 /\ override_file(cleanups[i]) # override_file(cleanups[j])

\* The path kill resolves its NAME to.
KillPath == Join(WorkspaceDir, nname)

\* The workspaces of the listing at the path kill was given.
KillListed == {k \in 1..Len(listing) : listing[k].path = KillPath}

LogAt(cmd, outcome) == {k \in 1..Len(dlog) : dlog[k] = <<cmd, outcome>>}

\* C25: destroy runs compose down first and git worktree remove only after
\* compose down has succeeded; when compose down fails, destroy returns that
\* failure and the worktree stays in place.
C25_DownThenWorktreeRemove ==
    /\ \A k \in 1..Len(dlog) :
          dlog[k][1] = "worktree_remove" =>
              /\ k > 1
              /\ dlog[1] = <<"compose_down", "ok">>
    /\ LogAt("compose_down", "failed") # {} =>
          /\ dlog = <<<<"compose_down", "failed">>>>
          /\ dpc = "done"
          /\ dresult.kind = "err"
          /\ Contains(dresult.msg, <<"command exited with status ">>)
          /\ dpath \in ddirs

C25_Witness ==
    /\ dpath = PathA
    /\ dpc = "done"
    /\ dlog = <<<<"compose_down", "failed">>>>
    /\ dresult = run_cmd(Some(7))
    /\ PathA \in ddirs
    /\ PathA \in dregistered

\* The order of the lifecycle.
LifecycleOrder ==
    <<"initializeCommand", "compose_up", "onCreateCommand", "updateContentCommand",
      "postCreateCommand", "postStartCommand", "forward", "exec_interactive">>

\* The position of a step in the lifecycle.
OrderOf(step) == CHOOSE k \in 1..Len(LifecycleOrder) : LifecycleOrder[k] = step

\* The steps of the lifecycle that were run, with their outcomes, in the
\* order they were run in.
LifecycleLog ==
    SelectSeq(ulog, LAMBDA x : \E k \in 1..Len(LifecycleOrder) : LifecycleOrder[k] = x[1])

\* C26: up runs initializeCommand, docker compose up, onCreateCommand,
\* updateContentCommand, postCreateCommand, postStartCommand, the port
\* forward and the interactive exec in this order, each step only after the
\* steps before it succeeded; the first failure ends the command with that
\* failure and no later step is run.
C26_LifecycleOrder ==
    /\ \A i, j \in 1..Len(LifecycleLog) :
          i < j => /\ OrderOf(LifecycleLog[i][1]) < OrderOf(LifecycleLog[j][1])
                   /\ LifecycleLog[i][2] = "ok"
    /\ \A i \in 1..Len(ulog) :
          ulog[i][2] = "failed" =>
              /\ i = Len(ulog)
              /\ upc = "done"
              /\ uresult = [kind |-> "err", msg |-> <<ulog[i][1]>>]
    /\ uresult = Okay =>
          \A k \in 1..Len(LifecycleOrder) :
             (LifecycleOrder[k] \in uconf \cup {"compose_up"}) =>
                 \E i \in 1..Len(ulog) : ulog[i] = <<LifecycleOrder[k], "ok">>

C26_Witness ==
    /\ upc = "done"
    /\ uconf = OptionalSteps
    /\ ulog = <<<<"initializeCommand", "ok">>, <<"compose_up", "ok">>,
                <<"onCreateCommand", "ok">>, <<"updateContentCommand", "failed">>>>
    /\ uresult.kind = "err"

\* The number a sequence of decimal digits denotes, by the weight of each
\* position.
RECURSIVE Power10(_)
Power10(n) == IF n = 0 THEN 1 ELSE 10 * Power10(n - 1)

RECURSIVE Denotes(_)
Denotes(ds) ==
    IF ds = <<>> THEN 0
    ELSE (CHOOSE d \in 0..9 : DigitChar(d) = Head(ds)) * Power10(Len(ds) - 1)
         + Denotes(Tail(ds))

\* The digits of a port part: the part without the sign it may start with.
DigitsOfPart(s) == IF s # <<>> /\ s[1] = "+" THEN SubSeq(s, 2, Len(s)) ELSE s

\* A valid 16-bit port number: decimal digits that denote a number of at
\* most 65535.
IsPort(s) ==
    /\ DigitsOfPart(s) # <<>>
    /\ \A k \in 1..Len(DigitsOfPart(s)) : DigitsOfPart(s)[k] \in DigitChars
    /\ Denotes(DigitsOfPart(s)) <= 65535

PortOf(s) == Denotes(DigitsOfPart(s))

\* The positions at which a string splits into two valid ports around ':'.
Splits(s) ==
    {k \in 1..Len(s) :
        s[k] = ":" /\ IsPort(SubSeq(s, 1, k - 1)) /\ IsPort(SubSeq(s, k + 1, Len(s)))}

\* C27: a JSON number n and a JSON string "n" deserialize to the PortMap
\* with host = container = n, a JSON string "h:c" to host h and container
\* c, and an input whose port parts are not valid 16-bit port numbers is
\* rejected.
C27_PortMapDeserialize ==
    (minput # [number |-> None, text |-> None] /\ mpc # "deserialize") =>
        IF minput.number # None
        THEN LET n == minput.number[1] IN
             IF n >= 0 /\ n <= 65535 THEN mport = PortMap(n, n) ELSE mport.kind = "err"
        ELSE LET s == minput.text[1] IN
             IF IsPort(s) THEN mport = PortMap(PortOf(s), PortOf(s))
             ELSE IF Splits(s) # {}
                  THEN \A k \in Splits(s) :
                          mport = PortMap(PortOf(SubSeq(s, 1, k - 1)),
                                          PortOf(SubSeq(s, k + 1, Len(s))))
                  ELSE mport.kind = "err"

C27_Witness ==
    /\ minput = JsonString(<<"3", "0", "0", "0", ":", "3", "0", "0", "1">>)
    /\ mport = PortMap(3000, 3001)

\* C28: a PortMap serializes to the string "host:container", and
\* deserializing that string gives the same PortMap back.
C28_PortMapRoundTrip ==
    /\ mtext # None =>
          /\ mport.kind = "ok"
          /\ mtext[1] = Decimal(mport.host) \o <<":">> \o Decimal(mport.container)
    /\ mpc = "done" /\ mtext # None => mback = mport

C28_Witness ==
    /\ minput = [number |-> None, text |-> None]
    /\ mport = PortMap(3000, 3001)
    /\ mtext = Some(<<"3", "0", "0", "0", ":", "3", "0", "0", "1">>)
    /\ mback = PortMap(3000, 3001)
    /\ mpc = "done"

\* The sidecars that carry the labels fwd attaches for the workspace.
Mine == {c \in sidecars : c.labels = FwdLabels(ProjectName, compose_project_name(dpath))}

\* C29: the labels fwd attaches to the sidecar of a workspace are the labels
\* the lookups filter on: the sidecar is returned by forwarded_ports of its
\* project and by workspace_forwarded_ports of its project and compose
\* name, and the Cleanup of the workspace finds it.
C29_SidecarLabelsMatchLookups ==
    /\ fports # None => \A c \in Mine : <<compose_project_name(dpath), c.port>> \in fports[1]
    /\ fwsports # None => \A c \in Mine : c.port \in fwsports[1]
    /\ (\E k \in 1..Len(dlog) : dlog[k] = <<"list_sidecars", "none">>) => Mine = {}

\* The user answered y: the line read at the prompt is y or Y, apart from
\* the whitespace around it.
AnsweredY ==
    /\ qline # None
    /\ qline[1].kind = "ok"
    /\ \E k \in 1..Len(qline[1].line) :
          /\ qline[1].line[k] \in {"y", "Y"}
          /\ \A j \in (1..Len(qline[1].line)) \ {k} : qline[1].line[j] \in Whitespace

\* The user gave another answer: a line was read, and it is not y.
AnsweredOther == qline # None /\ qline[1].kind = "ok" /\ ~AnsweredY

\* No Cleanup was created and none ran a step.
NoCleanup == cleanups = <<>> /\ cst = <<>> /\ qlog = <<>>

\* C31: without --yes, prune runs a Cleanup only after the user answered y
\* (in either case); after any other answer it has created and run no
\* Cleanup, so nothing is removed, and it returns success.
C31_PruneConfirmationGate ==
    ~qyes =>
        /\ ~NoCleanup => AnsweredY
        /\ AnsweredOther => NoCleanup /\ qpc = "done" /\ qresult.kind = "ok"

\* Without --yes there was something to remove, the user answered "yes",
\* and prune has returned.
C31_Witness ==
    /\ ~qyes /\ AnsweredOther /\ qline[1].line = <<"y", "e", "s", "\n">>
    /\ qpc = "done" /\ to_clean_orphans # <<>>

\* The loop over the worktrees has run.
Classified ==
    /\ qpc \notin {"list", "classify"}
    /\ qresult # [kind |-> "err", msg |-> <<"list">>]

\* How often path stands in a list of workspaces, and in a list of paths.
InWorkspaces(wss, path) == Cardinality({j \in 1..Len(wss) : wss[j].path = path})
InPaths(paths, path) == Cardinality({j \in 1..Len(paths) : paths[j] = path})

\* How many Cleanup tasks there are for path.
CleanupsFor(path) == Cardinality({i \in 1..Len(cleanups) : cleanups[i].path = path})

CleanupOrder == <<"compose_down", "remove_file", "worktree_remove">>
CleanupStep(entry) == CHOOSE k \in 1..Len(CleanupOrder) : CleanupOrder[k] = entry[1]

\* C33: a Cleanup runs its steps in the order compose down, override-file
\* removal, git worktree remove; it runs git worktree remove only after a
\* compose down that exited with status 0, and once compose down has failed
\* the task fails without touching the worktree.
C33_CleanupOrderAndGate ==
    \A i \in 1..Len(qlog) :
        /\ \A a, b \in 1..Len(qlog[i]) :
              a < b => CleanupStep(qlog[i][a]) < CleanupStep(qlog[i][b])
        /\ (\E a \in 1..Len(qlog[i]) : qlog[i][a][1] = "worktree_remove")
              => qlog[i][1] = <<"compose_down", "ok">>
        /\ (qlog[i] # <<>> /\ qlog[i][1] = <<"compose_down", "failed">>)
              => /\ cst[i] \in {"ok", "err"} => cst[i] = "err"
                 /\ \A a \in 1..Len(qlog[i]) : qlog[i][a][1] # "worktree_remove"

\* What was read at a prompt is a line that is y or Y apart from whitespace.
SaidYes(read) ==
    /\ read # None
    /\ read[1].kind = "ok"
    /\ \E k \in 1..Len(read[1].line) :
          /\ read[1].line[k] \in {"y", "Y"}
          /\ \A j \in (1..Len(read[1].line)) \ {k} : read[1].line[j] \in Whitespace

\* What was read at a prompt is a line that declines.
SaidNo(read) == read # None /\ read[1].kind = "ok" /\ ~SaidYes(read)

\* kill, and destroy, was given the root workspace of the project.
KillOfRoot == nop = "kill" /\ KillPath = ProjectPath
DestroyOfRoot == dpath = ProjectPath

FwdSucceeded == dpc \in {"ports", "wsports", "sidecars"}

\* The forward sidecars of the project: what remove_project_sidecars lists.
ProjectSidecars == {c \in sidecars : MatchesLabels(c, FwdRemoveFilter(ProjectName))}

\* C35: after a successful fwd exactly one forward sidecar of the project
\* exists, whatever sidecars existed before and whether or not each of them
\* could be removed.
C35_OneSidecarAfterFwd ==
    FwdSucceeded => Cardinality(ProjectSidecars) = 1

\* exec --name or fwd --name was given a workspace that is listed and whose
\* status is not running.
NamedNotRunning ==
    /\ nop \in {"exec", "fwd"}
    /\ \E k \in 1..Len(listing) :
          /\ Basename(listing[k].path) = nname
          /\ listing[k].status # "running"
          /\ \A j \in 1..(k - 1) : Basename(listing[j].path) # nname

\* C36: exec --name and fwd --name of a workspace that is not running
\* return an error and perform no action on the engine: no sidecar is
\* removed or created and nothing is executed in a container.
C36_NotRunningNoSideEffect ==
    NamedNotRunning =>
        /\ nactions = <<>>
        /\ target = <<>>
        /\ npc = "done" => nresult.kind = "err"

\* fwd --name a was refused for the exited workspace a, which has a
\* container.
C36_Witness ==
    /\ nop = "fwd" /\ NamedNotRunning /\ npc = "done"
    /\ nresult = Err("workspace is not running")
    /\ \E k \in 1..Len(listing) :
          /\ Basename(listing[k].path) = nname
          /\ listing[k].status = "exited"
          /\ listing[k].container_ids # <<>>

\* C37: a batch on scoped threads ends: every body that has started ends,
\* the caller blocked in join() not standing in its way, and run_parallel
\* returns.
C37_BatchTerminates ==
    /\ \A i \in 1..MaxTasks :
          []((i <= Len(cmds) /\ thr[i] = "Running")
               => <>(i <= Len(cmds) /\ thr[i] \in Finished))
    /\ <>(tpc = "done")

====
